---- MODULE Spec2Model ----
(***************************************************************************)
(* Model of the IRS backtesting engine: the replay pipeline of             *)
(* engine/backtester.py driving context/state_machine.py,                  *)
(* strategy/{confirmations,entries,exits,addons,risk,fta_handler}.py,      *)
(* context/{mtf_manager,bias,sync_checker}.py and                          *)
(* engine/{portfolio,trade_log}.py.                                        *)
(*                                                                         *)
(* Numbers.  Prices are integers (price x 100).  Money is an integer in    *)
(* the same scale.  A percentage is a pair num/den and x * pct is          *)
(* (x * num) \div den; a float division a / b is a \div b.                 *)
(*                                                                         *)
(* The pattern detectors (concepts/*.py) are not modelled: the artifact    *)
(* tables they produce are inputs, drawn in Init from small catalogs that  *)
(* have the detectors' output schema.                                      *)
(***************************************************************************)
EXTENDS Integers, Sequences, FiniteSets, TLC

VARIABLES
    cfg,              \* Config (config.py)
    t0,               \* time (minute) of the first 1m bar of the filtered series
    mtf,              \* MTFManager._data: tf -> TimeframeData (pre-computed tables)
    pc,               \* position of Backtester.run
    bar_idx,          \* bar_idx of the main loop
    candle,           \* the candle being processed
    states,           \* StateMachineManager._states (insertion-ordered)
    next_index,       \* StateMachineManager._next_index
    registered_keys,  \* Backtester._registered_poi_keys
    htf_bias,         \* Backtester._htf_bias
    ltf_bias,         \* Backtester._ltf_bias
    sync_mode,        \* Backtester._sync_mode
    positions,        \* Portfolio._positions: poi_id -> list of PositionInfo
    cash,             \* Portfolio._cash
    last_close,       \* Portfolio._last_close
    equity_curve,     \* Portfolio._equity_curve
    trades,           \* TradeLog._trades
    events,           \* EventLog._events
    signals,          \* Backtester._signals
    calls,            \* number of calls an API driver has made
    obs               \* observations of the current bar / last call (history)

vars == <<cfg, t0, mtf, pc, bar_idx, candle, states, next_index,
          registered_keys, htf_bias, ltf_bias, sync_mode, positions, cash,
          last_close, equity_curve, trades, events, signals, calls, obs>>

-----------------------------------------------------------------------------
(* Bounds of the model                                                      *)

NBars == 4          \* bars of the filtered 1m series
MaxApiCalls == 5    \* calls made by the API drivers (state machine, portfolio)

-----------------------------------------------------------------------------
(* Constants of the program                                                 *)

NoValue == -1                 \* None of an Optional[float] / Optional[int]
WickGate == 5                 \* confirmations.py: len(existing_confirms) >= 5
MinRR == 2                    \* entries.py: validate_risk(..., min_rr=2.0)
RoughTargetMult == 3          \* entries.py: sl_distance * 3.0
AddonLookback == 10           \* addons.py: broken_index >= bar_index - 10
BiasLookback == 10            \* bias.py: lookback = 10

Pct(x, p) == (x * p.num) \div p.den

SlBufferPct == [num |-> 5, den |-> 10000]          \* risk.py: 0.0005 * price
CvbTolerancePct == [num |-> 1, den |-> 1000]       \* confirmations.py: tolerance_pct = 0.001
FallbackTargetPct == [num |-> 3, den |-> 100]      \* exits.py: price * 1.03 / 0.97
FtaCloseThreshold == [num |-> 3, den |-> 10]       \* fta_handler.py: close_threshold_pct = 0.3
BiasRatio == [num |-> 6, den |-> 10]               \* bias.py: ratio > 0.6
DefaultBeCommission == [num |-> 6, den |-> 10000]  \* risk.py: commission_pct = 0.0006
AddonSizeMult == [num |-> 1, den |-> 2]            \* addons.py: position_size_mult = 0.5

Abs(x) == IF x < 0 THEN -x ELSE x
Min2(a, b) == IF a <= b THEN a ELSE b
Max2(a, b) == IF a >= b THEN a ELSE b

RECURSIVE SeqMin(_)
SeqMin(s) == IF Len(s) = 1 THEN s[1] ELSE Min2(s[1], SeqMin(Tail(s)))
RECURSIVE SeqMax(_)
SeqMax(s) == IF Len(s) = 1 THEN s[1] ELSE Max2(s[1], SeqMax(Tail(s)))

\* pandas boolean-mask selection: the rows of a table that satisfy Test, in order
SelectRows(s, Test(_)) == SelectSeq(s, Test)

\* DataFrame.sort_values (stable) by Key, ascending
SortBy(s, Key(_)) ==
    LET n == Len(s)
        Rank(i) == Cardinality({j \in 1..n : Key(s[j]) < Key(s[i])
                                            \/ (Key(s[j]) = Key(s[i]) /\ j < i)}) + 1
    IN  [k \in 1..n |-> s[CHOOSE i \in 1..n : Rank(i) = k]]

-----------------------------------------------------------------------------
(* Time and timeframes (data/resampler.py, context/mtf_manager.py)          *)

\* resampler.py TF_TO_PANDAS_FREQ: width of a bucket in minutes
TFWidth(tf) ==
    CASE tf = "1m" -> 1 [] tf = "5m" -> 5 [] tf = "15m" -> 15 [] tf = "30m" -> 30
      [] tf = "1H" -> 60 [] tf = "4H" -> 240 [] tf = "1D" -> 1440

\* time of bar i of the filtered 1m series (df["time"].iloc[i])
BarTime(i) == t0 + i

\* resample(): open time of the bucket of timeframe tf that holds minute t
BucketOf(tf, t) == (t \div TFWidth(tf)) * TFWidth(tf)

\* candles["time"] of the resampled frame: empty buckets are dropped
TfCandleTimes(tf) == {BucketOf(tf, BarTime(i)) : i \in 0..(NBars - 1)}

\* candles.loc[idx, "time"]: time of candle idx (0-based) of timeframe tf,
\* NoValue when idx is not in candles.index
TfTimeOf(tf, idx) ==
    LET times == TfCandleTimes(tf)
    IN  IF idx < 0 \/ idx >= Cardinality(times) THEN NoValue
        ELSE CHOOSE t \in times : Cardinality({u \in times : u < t}) = idx

\* MTFManager._add_poi_creation_times: the latest creation time of the FVG
\* components of the POI, the earliest candle time when it has none
add_poi_creation_times(tf, poi) ==
    LET earliest == TfTimeOf(tf, 0)
        ft == IF poi.fvg_creation_index = NoValue THEN NoValue
              ELSE TfTimeOf(tf, poi.fvg_creation_index)
    IN  [poi EXCEPT !.creation_time = IF ft # NoValue /\ ft > earliest THEN ft ELSE earliest]

\* MTFManager.get_pois_at
get_pois_at(tf, timestamp) ==
    SelectRows(mtf[tf].pois, LAMBDA p : p.creation_time <= timestamp)

\* MTFManager.get_structure_at
get_structure_at(tf, timestamp) ==
    SelectRows(mtf[tf].structure,
               LAMBDA e : /\ TfTimeOf(tf, e.broken_index) # NoValue
                          /\ TfTimeOf(tf, e.broken_index) <= timestamp)

\* a query that forgets the time gate
fvgs_ungated(tf, timestamp) == mtf[tf].fvgs

\* MTFManager.get_fvgs_at
get_fvgs_at(tf, timestamp) ==
    SelectRows(mtf[tf].fvgs,
               LAMBDA f : /\ TfTimeOf(tf, f.creation_index) # NoValue
                          /\ TfTimeOf(tf, f.creation_index) <= timestamp)

\* MTFManager.get_all_active_pois: the POIs of every timeframe, tagged with the
\* timeframe, by score descending
RECURSIVE ConcatPois(_, _)
ConcatPois(tfs, timestamp) ==
    IF tfs = <<>> THEN <<>>
    ELSE LET rows == get_pois_at(tfs[1], timestamp)
         IN  [i \in 1..Len(rows) |-> [rows[i] EXCEPT !.timeframe = tfs[1]]]
             \o ConcatPois(Tail(tfs), timestamp)

get_all_active_pois(timestamp) ==
    SortBy(ConcatPois(cfg.timeframes, timestamp), LAMBDA p : 0 - p.score)

\* MTFManager.tf_just_closed
tf_just_closed(tf, timestamp_1m) ==
    IF tf = "1m" THEN TRUE
    ELSE (timestamp_1m + 1) \in TfCandleTimes(tf)

-----------------------------------------------------------------------------
(* Confirmation engine (strategy/confirmations.py)                          *)

ACTIVE_FVG_STATUSES == {"FRESH", "TESTED", "PARTIALLY_FILLED"}

\* Result of a checker: None (Miss) or a details dict (Hit).  Of the details
\* the model keeps formed_at, the 1m bar index at which the artifact the
\* checker matched came to exist (creation_index of an FVG, inversion_index of
\* an inverted FVG, the last of the indices of a liquidity level, broken_index
\* of a structure event).
Miss == [hit |-> FALSE, formed_at |-> NoValue]
Hit(formed_at) == [hit |-> TRUE, formed_at |-> formed_at]

\* first row of a table that satisfies Test (a "for row in rows: if ...: return")
FirstRow(rows, Test(_), FormedAt(_)) ==
    LET sel == SelectRows(rows, Test) IN IF sel = <<>> THEN Miss ELSE Hit(FormedAt(sel[1]))

FvgFormedAt(fvg) == fvg.creation_index
InversionFormedAt(entry) == entry.inversion_index
LiquidityFormedAt(row) == SeqMax(row.indices)
StructureFormedAt(e) == e.broken_index

check_poi_tap(candle_high, candle_low, poi_top, poi_bottom, poi_direction) ==
    IF poi_direction = 1 THEN candle_low <= poi_top
    ELSE candle_high >= poi_bottom

check_liquidity_sweep(c, nearby_liquidity, poi_direction) ==
    LET target_dir == IF poi_direction = 1 THEN -1 ELSE 1
    IN  FirstRow(nearby_liquidity,
                 LAMBDA row : /\ row.direction = target_dir
                              /\ row.status = "ACTIVE"
                              /\ IF target_dir = -1
                                 THEN c.low < row.level /\ c.close >= row.level
                                 ELSE c.high > row.level /\ c.close <= row.level,
             LiquidityFormedAt)

check_fvg_inversion(fvg_lifecycle, bar_index, poi_direction) ==
    FirstRow(fvg_lifecycle,
             LAMBDA entry : /\ entry.inversion_index = bar_index
                            /\ entry.direction = -poi_direction,
             InversionFormedAt)

check_inversion_test(c, fvg_lifecycle, poi_direction) ==
    FirstRow(fvg_lifecycle,
             LAMBDA entry : /\ entry.status = "INVERTED"
                            /\ entry.inversion_index # NoValue
                            /\ entry.direction = -poi_direction
                            /\ IF poi_direction = 1 THEN c.low <= entry.top
                               ELSE c.high >= entry.bottom,
             InversionFormedAt)

StructureMatches(structure_events, bar_index, poi_direction) ==
    SelectRows(structure_events,
               LAMBDA e : e.broken_index = bar_index /\ e.direction = poi_direction)

check_structure_break(structure_events, bar_index, poi_direction) ==
    LET matches == StructureMatches(structure_events, bar_index, poi_direction)
    IN  IF matches = <<>> THEN Miss ELSE Hit(StructureFormedAt(matches[1]))

check_fvg_wick_reaction(c, nearby_fvgs, poi_direction) ==
    FirstRow(nearby_fvgs,
             LAMBDA fvg :
                /\ fvg.status \in ACTIVE_FVG_STATUSES
                /\ \/ /\ poi_direction = 1 /\ fvg.direction = 1
                      /\ c.low <= fvg.top /\ c.close > fvg.midpoint
                      /\ Min2(c.open, c.close) - c.low > 0
                   \/ /\ poi_direction = -1 /\ fvg.direction = -1
                      /\ c.high >= fvg.bottom /\ c.close < fvg.midpoint
                      /\ c.high - Max2(c.open, c.close) > 0,
             FvgFormedAt)

check_cvb_test(c, nearby_fvgs, poi_direction) ==
    FirstRow(nearby_fvgs,
             LAMBDA fvg :
                /\ fvg.status \in ACTIVE_FVG_STATUSES
                /\ fvg.direction = poi_direction
                /\ IF poi_direction = 1
                   THEN c.low <= fvg.midpoint + Pct(fvg.midpoint, CvbTolerancePct)
                   ELSE c.high >= fvg.midpoint - Pct(fvg.midpoint, CvbTolerancePct),
             FvgFormedAt)

HasType(confirms, ctype) == \E i \in 1..Len(confirms) : confirms[i].type = ctype

check_additional_cbos(structure_events, bar_index, poi_direction, existing_confirms) ==
    IF ~HasType(existing_confirms, "STRUCTURE_BREAK") THEN Miss
    ELSE FirstRow(StructureMatches(structure_events, bar_index, poi_direction),
                  LAMBDA e : e.type = "CBOS",
             StructureFormedAt)

\* an _add that forgets the (type, bar_index) duplicate test
add_without_duplicate_test(confirms, ctype, bar_index, formed_at, max_count) ==
    IF Len(confirms) >= max_count THEN confirms
    ELSE Append(confirms, [type |-> ctype, bar_index |-> bar_index,
                          formed_at |-> formed_at])

\* an _add that forgets the cap
add_without_cap(confirms, ctype, bar_index, formed_at, max_count) ==
    IF \E i \in 1..Len(confirms) :
           confirms[i].type = ctype /\ confirms[i].bar_index = bar_index
    THEN confirms
    ELSE Append(confirms, [type |-> ctype, bar_index |-> bar_index,
                          formed_at |-> formed_at])

\* collect_confirmations._add: the cap, then the (type, bar_index) duplicate test
AddConfirmation(confirms, ctype, bar_index, formed_at, max_count) ==
    IF Len(confirms) >= max_count THEN confirms
    ELSE IF \E i \in 1..Len(confirms) :
                confirms[i].type = ctype /\ confirms[i].bar_index = bar_index
         THEN confirms
         ELSE Append(confirms, [type |-> ctype, bar_index |-> bar_index,
                               formed_at |-> formed_at])

AddIf(confirms, res, ctype, bar_index, max_count) ==
    IF res.hit THEN AddConfirmation(confirms, ctype, bar_index, res.formed_at, max_count)
    ELSE confirms

\* collect_confirmations check 1: the POI tap
AddTap(confirms, c, bar_index, poi_data, max_count) ==
    IF check_poi_tap(c.high, c.low, poi_data.top, poi_data.bottom, poi_data.direction)
    THEN AddConfirmation(confirms, "POI_TAP", bar_index, bar_index, max_count)
    ELSE confirms

\* a wick gate that counts the confirmations added earlier on the same bar
wick_gate_on_updated_list(confirms, n_existing, c, bar_index, cd, d, max_count) ==
    IF Len(confirms) >= WickGate
    THEN AddIf(confirms, check_fvg_wick_reaction(c, cd.nearby_fvgs, d),
               "FVG_WICK_REACTION", bar_index, max_count)
    ELSE confirms

\* collect_confirmations check 6: the wick reaction, gated on the number of
\* confirmations the call started with
AddWick(confirms, n_existing, c, bar_index, cd, d, max_count) ==
    IF n_existing >= WickGate
    THEN AddIf(confirms, check_fvg_wick_reaction(c, cd.nearby_fvgs, d),
               "FVG_WICK_REACTION", bar_index, max_count)
    ELSE confirms

\* collect_confirmations check 8: additional cBOS, tested against the list
\* updated by checks 1-7
AddCbos(confirms, bar_index, cd, d, max_count) ==
    AddIf(confirms, check_additional_cbos(cd.structure_events, bar_index, d, confirms),
          "ADDITIONAL_CBOS", bar_index, max_count)

\* checks 1-8 in the order of the code, each applied to the list the
\* previous one left
collect_confirmations(c, bar_index, poi_data, existing_confirms, cd, config) ==
    AddCbos(
      AddIf(
        AddWick(
          AddIf(
            AddIf(
              AddIf(
                AddIf(
                  AddTap(existing_confirms, c, bar_index, poi_data, config.max_count),
                  check_liquidity_sweep(c, cd.nearby_liquidity, poi_data.direction),
                  "LIQUIDITY_SWEEP", bar_index, config.max_count),
                check_fvg_inversion(cd.fvg_lifecycle, bar_index, poi_data.direction),
                "FVG_INVERSION", bar_index, config.max_count),
              check_inversion_test(c, cd.fvg_lifecycle, poi_data.direction),
              "INVERSION_TEST", bar_index, config.max_count),
            check_structure_break(cd.structure_events, bar_index, poi_data.direction),
            "STRUCTURE_BREAK", bar_index, config.max_count),
          Len(existing_confirms), c, bar_index, cd, poi_data.direction, config.max_count),
        check_cvb_test(c, cd.nearby_fvgs, poi_data.direction),
        "CVB_TEST", bar_index, config.max_count),
      bar_index, cd, poi_data.direction, config.max_count)

\* a threshold that asks for one confirmation more than min_count
is_ready_above_min(confirms, config) == Len(confirms) > config.min_count

is_ready(confirms, config) == Len(confirms) >= config.min_count

has_fifth_confirm_trap(confirms) ==
    /\ Len(confirms) >= 5
    /\ ~\E i \in 1..Len(confirms) :
            confirms[i].type \in {"FVG_INVERSION", "INVERSION_TEST", "FVG_WICK_REACTION"}
    /\ confirms[Len(confirms)].type \in {"STRUCTURE_BREAK", "ADDITIONAL_CBOS"}

-----------------------------------------------------------------------------
(* POI state machine (context/state_machine.py)                             *)

Phases == {"IDLE", "POI_TAPPED", "COLLECTING", "READY", "POSITIONED", "MANAGING", "CLOSED"}

\* POIState as register_poi builds it; path is the history of the values
\* assigned to phase
NewPOIState(poi_id, poi_data) ==
    [poi_id |-> poi_id, poi_data |-> poi_data, phase |-> "IDLE",
     confirmations |-> <<>>, entry_price |-> NoValue, stop_loss |-> NoValue,
     target |-> NoValue, breakeven_level |-> NoValue, path |-> <<"IDLE">>]

SetPhase(state, ph) == [state EXCEPT !.phase = ph, !.path = Append(@, ph)]

\* the collecting step shared by the POI_TAPPED and COLLECTING branches
StoreConfirmations(state, confs, config) ==
    IF is_ready(confs, config)
    THEN SetPhase([state EXCEPT !.confirmations = confs], "READY")
    ELSE [state EXCEPT !.confirmations = confs]

Collect(state, c, bar_index, cd, config) ==
    StoreConfirmations(state,
                       collect_confirmations(c, bar_index, state.poi_data,
                                             state.confirmations, cd, config),
                       config)

\* a transition that stops at the tap and leaves collection to the next bar
transition_stops_at_tapped(state, c, bar_index, cd, config) ==
    IF state.phase = "IDLE"
    THEN IF check_poi_tap(c.high, c.low, state.poi_data.top,
                          state.poi_data.bottom, state.poi_data.direction)
         THEN SetPhase(state, "POI_TAPPED")
         ELSE state
    ELSE IF state.phase \in {"POI_TAPPED", "COLLECTING"}
         THEN Collect(SetPhase(state, "COLLECTING"), c, bar_index, cd, config)
         ELSE state

\* transition
transition(state, c, bar_index, cd, config) ==
    IF state.phase = "CLOSED" THEN state
    ELSE LET s1 == IF /\ state.phase = "IDLE"
                      /\ check_poi_tap(c.high, c.low, state.poi_data.top,
                                       state.poi_data.bottom, state.poi_data.direction)
                   THEN SetPhase(state, "POI_TAPPED")
                   ELSE state
         IN  IF s1.phase = "POI_TAPPED"
             THEN Collect(SetPhase(s1, "COLLECTING"), c, bar_index, cd, config)
             ELSE IF s1.phase = "COLLECTING"
                  THEN Collect(s1, c, bar_index, cd, config)
                  ELSE s1

\* a ticker that keeps collecting for every POI, whatever its phase
update_collects_always(sts, c, bar_index, cd, config) ==
    [i \in 1..Len(sts) |-> Collect(sts[i], c, bar_index, cd, config)]

\* StateMachineManager.update
update(sts, c, bar_index, cd, config) ==
    [i \in 1..Len(sts) |->
        IF sts[i].phase \in {"IDLE", "POI_TAPPED", "COLLECTING"}
        THEN transition(sts[i], c, bar_index, cd, config)
        ELSE sts[i]]

\* StateMachineManager.register_poi appends the state of a new POI
register_poi(sts, nidx, poi_data) == Append(sts, NewPOIState(nidx, poi_data))

IndexOf(sts, poi_id) == CHOOSE i \in 1..Len(sts) : sts[i].poi_id = poi_id

set_positioned(sts, poi_id, entry_price, stop_loss, target) ==
    LET i == IndexOf(sts, poi_id)
    IN  [sts EXCEPT ![i] = [SetPhase(sts[i], "POSITIONED") EXCEPT
                               !.entry_price = entry_price,
                               !.stop_loss = stop_loss,
                               !.target = target]]

set_managing(sts, poi_id) ==
    LET i == IndexOf(sts, poi_id) IN [sts EXCEPT ![i] = SetPhase(sts[i], "MANAGING")]

invalidate_poi(sts, poi_id) ==
    LET i == IndexOf(sts, poi_id) IN [sts EXCEPT ![i] = SetPhase(sts[i], "CLOSED")]

\* a close that re-arms the POI instead of closing it
close_poi_rearms(sts, poi_id) ==
    LET i == IndexOf(sts, poi_id) IN [sts EXCEPT ![i] = SetPhase(sts[i], "IDLE")]

close_poi(sts, poi_id) ==
    LET i == IndexOf(sts, poi_id) IN [sts EXCEPT ![i] = SetPhase(sts[i], "CLOSED")]

get_positioned_states(sts) ==
    SelectRows(sts, LAMBDA st : st.phase \in {"POSITIONED", "MANAGING"})

get_ready_states(sts) == SelectRows(sts, LAMBDA st : st.phase = "READY")

-----------------------------------------------------------------------------
(* Bias and sync (context/bias.py, context/sync_checker.py)                 *)

\* DataFrame.tail(n)
TailRows(rows, n) == IF Len(rows) <= n THEN rows ELSE SubSeq(rows, Len(rows) - n + 1, Len(rows))

RECURSIVE BiasScore(_, _)
BiasScore(rows, dir) ==
    IF rows = <<>> THEN 0
    ELSE (IF rows[1].direction = dir THEN (IF rows[1].type = "BOS" THEN 2 ELSE 1) ELSE 0)
         + BiasScore(Tail(rows), dir)

determine_bias(structure_events, lookback) ==
    LET recent == TailRows(structure_events, lookback)
        bullish_score == BiasScore(recent, 1)
        bearish_score == BiasScore(recent, -1)
        total == bullish_score + bearish_score
    IN  IF structure_events = <<>> \/ total = 0 THEN "UNDEFINED"
        ELSE IF bullish_score * BiasRatio.den > BiasRatio.num * total THEN "BULLISH"
        ELSE IF bearish_score * BiasRatio.den > BiasRatio.num * total THEN "BEARISH"
        ELSE "UNDEFINED"

determine_bias_at(tf, structure_events, timestamp) ==
    determine_bias(SelectRows(structure_events,
                              LAMBDA e : /\ TfTimeOf(tf, e.broken_index) # NoValue
                                         /\ TfTimeOf(tf, e.broken_index) <= timestamp),
                   BiasLookback)

check_sync(htf, ltf) ==
    IF htf = "UNDEFINED" \/ ltf = "UNDEFINED" THEN "UNDEFINED"
    ELSE IF htf = ltf THEN "SYNC" ELSE "DESYNC"

ZeroPct == [num |-> 0, den |-> 1]

get_position_size_multiplier(mode, risk_config) ==
    IF mode = "SYNC" THEN risk_config.position_size_sync
    ELSE IF mode = "DESYNC" THEN risk_config.position_size_desync
    ELSE ZeroPct

-----------------------------------------------------------------------------
(* Risk (strategy/risk.py)                                                  *)

Col(rows, F(_)) == [i \in 1..Len(rows) |-> F(rows[i])]

\* a stop-loss method result: <<>> is None, <<x>> is the level x
calculate_stop_loss(poi_data, direction, nearby_fvgs, nearby_liquidity, method) ==
    LET buffer == Pct(poi_data.midpoint, SlBufferPct)
        behind_poi == IF direction = 1 THEN poi_data.bottom - buffer
                      ELSE poi_data.top + buffer
        rel_fvgs == SelectRows(nearby_fvgs, LAMBDA f : f.direction = direction)
        behind_fvg ==
            IF rel_fvgs = <<>> THEN <<>>
            ELSE IF direction = 1
                 THEN <<SeqMin(Col(rel_fvgs, LAMBDA f : f.bottom)) - buffer>>
                 ELSE <<SeqMax(Col(rel_fvgs, LAMBDA f : f.top)) + buffer>>
        behind_cvb ==
            IF rel_fvgs = <<>> THEN <<>>
            ELSE IF direction = 1
                 THEN <<SeqMin(Col(rel_fvgs, LAMBDA f : f.midpoint)) - buffer>>
                 ELSE <<SeqMax(Col(rel_fvgs, LAMBDA f : f.midpoint)) + buffer>>
        rel_liq == SelectRows(nearby_liquidity, LAMBDA l : l.direction = -direction)
        behind_liquidity ==
            IF rel_liq = <<>> THEN <<>>
            ELSE IF direction = 1
                 THEN <<SeqMin(Col(rel_liq, LAMBDA l : l.level)) - buffer>>
                 ELSE <<SeqMax(Col(rel_liq, LAMBDA l : l.level)) + buffer>>
        result == CASE method = "behind_poi" -> <<behind_poi>>
                    [] method = "behind_fvg" -> behind_fvg
                    [] method = "behind_cvb" -> behind_cvb
                    [] method = "behind_liquidity" -> behind_liquidity
                    [] OTHER -> <<>>
    IN  IF result = <<>> THEN behind_poi ELSE result[1]

\* a sizing that trades the UNDEFINED mode at the DESYNC multiplier
size_undefined_as_desync(account_equity, entry_price, stop_loss, mode, risk_config) ==
    LET risk_amount == Pct(account_equity, risk_config.max_risk_per_trade)
        distance == Abs(entry_price - stop_loss)
        sync_mult == IF mode = "SYNC" THEN risk_config.position_size_sync
                     ELSE risk_config.position_size_desync
    IN  IF distance = 0 THEN 0
        ELSE Pct(risk_amount \div distance, sync_mult)

calculate_position_size(account_equity, entry_price, stop_loss, mode, risk_config) ==
    LET risk_amount == Pct(account_equity, risk_config.max_risk_per_trade)
        distance == Abs(entry_price - stop_loss)
        sync_mult == IF mode = "SYNC" THEN risk_config.position_size_sync
                     ELSE IF mode = "DESYNC" THEN risk_config.position_size_desync
                     ELSE ZeroPct
    IN  IF distance = 0 THEN 0
        ELSE Pct(risk_amount \div distance, sync_mult)

\* validate_risk: is_valid of the pair it returns
validate_risk(entry_price, stop_loss, target, direction, min_rr) ==
    LET reward == IF direction = 1 THEN target - entry_price ELSE entry_price - target
        risk == IF direction = 1 THEN entry_price - stop_loss ELSE stop_loss - entry_price
    IN  IF risk <= 0 THEN FALSE ELSE reward >= min_rr * risk

calculate_breakeven_level(entry_price, direction, commission_pct) ==
    IF direction = 1 THEN entry_price + Pct(entry_price, [commission_pct EXCEPT !.num = 2 * @])
    ELSE entry_price - Pct(entry_price, [commission_pct EXCEPT !.num = 2 * @])

-----------------------------------------------------------------------------
(* First trouble area (strategy/fta_handler.py)                             *)

\* detect_fta: <<>> is None, <<row>> the nearest opposing POI in the path
detect_fta(current_price, target, direction, active_pois) ==
    LET active == SelectRows(active_pois, LAMBDA p : p.status \in {"ACTIVE", "TESTED"})
        in_path ==
            IF direction = 1
            THEN SortBy(SelectRows(active, LAMBDA p : /\ p.direction = -1
                                                      /\ p.bottom > current_price
                                                      /\ p.top < target),
                        LAMBDA p : p.bottom)
            ELSE IF direction = -1
            THEN SortBy(SelectRows(active, LAMBDA p : /\ p.direction = 1
                                                      /\ p.top < current_price
                                                      /\ p.bottom > target),
                        LAMBDA p : 0 - p.top)
            ELSE <<>>
    IN  IF in_path = <<>> THEN <<>> ELSE <<in_path[1]>>

classify_fta_distance(fta, current_price, target, close_threshold_pct) ==
    LET total_range == Abs(target - current_price)
        fta_distance == Abs(fta.midpoint - current_price)
    IN  IF total_range = 0 THEN "close"
        ELSE IF fta_distance * close_threshold_pct.den <= close_threshold_pct.num * total_range
             THEN "close"
             ELSE "far"

\* should_enter_with_fta: can_enter of the pair it returns
should_enter_with_fta(fta, fta_classification) ==
    fta = <<>> \/ fta_classification = "far"

-----------------------------------------------------------------------------
(* Signals (strategy/types.py Signal); <<>> stands for None, <<sig>> for a  *)
(* signal                                                                   *)

MkSignal(type, poi_id, direction, price, stop_loss, target, mult, reason, bar_index) ==
    [type |-> type, poi_id |-> poi_id, direction |-> direction, price |-> price,
     stop_loss |-> stop_loss, target |-> target, position_size_mult |-> mult,
     reason |-> reason, bar_index |-> bar_index]

-----------------------------------------------------------------------------
(* Entries (strategy/entries.py)                                            *)

check_conservative_entry(poi_state, c) ==
    IF poi_state.poi_data.direction = 1 THEN c.close > poi_state.poi_data.top
    ELSE c.close < poi_state.poi_data.bottom

check_aggressive_entry(poi_state, c) == TRUE

check_rto_entry(poi_state, c, nearby_fvgs) ==
    LET direction == poi_state.poi_data.direction
    IN  \E i \in 1..Len(nearby_fvgs) :
            /\ nearby_fvgs[i].status \in {"FRESH", "TESTED", "PARTIALLY_FILLED"}
            /\ nearby_fvgs[i].direction = direction
            /\ IF direction = 1 THEN c.low <= nearby_fvgs[i].top
               ELSE c.high >= nearby_fvgs[i].bottom

\* _build_entry_signal from the stop sl on: rough target, RR gate, signal
SignalWithStop(poi_state, c, bar_index, mode, config, reason, sl) ==
    LET direction == poi_state.poi_data.direction
        entry_price == c.close
        sl_distance == Abs(entry_price - sl)
        rough_target == IF direction = 1 THEN entry_price + sl_distance * RoughTargetMult
                        ELSE entry_price - sl_distance * RoughTargetMult
    IN  IF ~validate_risk(entry_price, sl, rough_target, direction, MinRR) THEN <<>>
        ELSE <<MkSignal("ENTER", poi_state.poi_id, direction, entry_price, sl,
                        rough_target, get_position_size_multiplier(mode, config.risk),
                        reason, bar_index)>>

build_entry_signal(poi_state, c, bar_index, mode, nearby_fvgs, nearby_liquidity, config, reason) ==
    SignalWithStop(poi_state, c, bar_index, mode, config, reason,
                   calculate_stop_loss(poi_state.poi_data, poi_state.poi_data.direction,
                                       nearby_fvgs, nearby_liquidity, "behind_liquidity"))

\* an evaluation that lets a trapped POI without a return-to-test enter by mode
evaluate_entry_trap_by_mode(poi_state, c, bar_index, fta, fta_classification, mode, nearby_fvgs, nearby_liquidity, config) ==
    IF poi_state.phase # "READY" THEN <<>>
    ELSE IF ~should_enter_with_fta(fta, fta_classification) THEN <<>>
    ELSE IF /\ has_fifth_confirm_trap(poi_state.confirmations) /\ config.entry.rto_wait
            /\ check_rto_entry(poi_state, c, nearby_fvgs)
    THEN build_entry_signal(poi_state, c, bar_index, mode, nearby_fvgs,
                            nearby_liquidity, config, "RTO entry after 5th-confirm trap")
    ELSE IF config.entry.mode = "aggressive"
    THEN build_entry_signal(poi_state, c, bar_index, mode, nearby_fvgs,
                            nearby_liquidity, config, "aggressive entry")
    ELSE IF check_conservative_entry(poi_state, c)
         THEN build_entry_signal(poi_state, c, bar_index, mode, nearby_fvgs,
                                 nearby_liquidity, config, "conservative entry")
         ELSE <<>>

evaluate_entry(poi_state, c, bar_index, fta, fta_classification, mode, nearby_fvgs, nearby_liquidity, config) ==
    IF poi_state.phase # "READY" THEN <<>>
    ELSE IF ~should_enter_with_fta(fta, fta_classification) THEN <<>>
    ELSE IF has_fifth_confirm_trap(poi_state.confirmations) /\ config.entry.rto_wait
    THEN IF check_rto_entry(poi_state, c, nearby_fvgs)
         THEN build_entry_signal(poi_state, c, bar_index, mode, nearby_fvgs,
                                 nearby_liquidity, config, "RTO entry after 5th-confirm trap")
         ELSE <<>>
    ELSE IF config.entry.mode = "conservative"
    THEN IF check_conservative_entry(poi_state, c)
         THEN build_entry_signal(poi_state, c, bar_index, mode, nearby_fvgs,
                                 nearby_liquidity, config, "conservative entry")
         ELSE <<>>
    ELSE IF config.entry.mode = "aggressive"
    THEN IF check_aggressive_entry(poi_state, c)
         THEN build_entry_signal(poi_state, c, bar_index, mode, nearby_fvgs,
                                 nearby_liquidity, config, "aggressive entry")
         ELSE <<>>
    ELSE IF check_conservative_entry(poi_state, c)
         THEN build_entry_signal(poi_state, c, bar_index, mode, nearby_fvgs,
                                 nearby_liquidity, config, "conservative entry (default)")
         ELSE <<>>

-----------------------------------------------------------------------------
(* Exits (strategy/exits.py)                                                *)

check_target_hit(candle_high, candle_low, target, direction) ==
    IF direction = 1 THEN candle_high >= target ELSE candle_low <= target

check_stop_loss_hit(candle_high, candle_low, stop_loss, direction) ==
    IF direction = 1 THEN candle_low <= stop_loss ELSE candle_high >= stop_loss

\* <<>> is None, <<level>> the breakeven level
check_structural_breakeven(poi_state, structure_events, bar_index, config) ==
    IF ~config.breakeven.structural_bu THEN <<>>
    ELSE IF poi_state.entry_price = NoValue THEN <<>>
    ELSE IF StructureMatches(structure_events, bar_index, poi_state.poi_data.direction) # <<>>
         THEN <<calculate_breakeven_level(poi_state.entry_price,
                                          poi_state.poi_data.direction,
                                          DefaultBeCommission)>>
         ELSE <<>>

check_fta_breakeven(poi_state, fta, current_price, config) ==
    IF ~config.breakeven.fta_bu THEN <<>>
    ELSE IF poi_state.entry_price = NoValue \/ fta = <<>> THEN <<>>
    ELSE IF IF poi_state.poi_data.direction = 1 THEN current_price >= fta[1].midpoint
            ELSE current_price <= fta[1].midpoint
         THEN <<calculate_breakeven_level(poi_state.entry_price,
                                          poi_state.poi_data.direction,
                                          DefaultBeCommission)>>
         ELSE <<>>

select_target(direction, current_price, active_pois, swing_points) ==
    IF direction = 1
    THEN LET candidates == SortBy(SelectRows(swing_points,
                                     LAMBDA w : w.level > current_price /\ w.direction = 1),
                                  LAMBDA w : w.level)
             opposing == SortBy(SelectRows(active_pois,
                                     LAMBDA p : p.direction = -1 /\ p.bottom > current_price),
                                LAMBDA p : p.bottom)
         IN  IF candidates # <<>> THEN candidates[1].level
             ELSE IF opposing # <<>> THEN opposing[1].bottom
             ELSE current_price + Pct(current_price, FallbackTargetPct)
    ELSE LET candidates == SortBy(SelectRows(swing_points,
                                     LAMBDA w : w.level < current_price /\ w.direction = -1),
                                  LAMBDA w : 0 - w.level)
             opposing == SortBy(SelectRows(active_pois,
                                     LAMBDA p : p.direction = 1 /\ p.top < current_price),
                                LAMBDA p : 0 - p.top)
         IN  IF candidates # <<>> THEN candidates[1].level
             ELSE IF opposing # <<>> THEN opposing[1].top
             ELSE current_price - Pct(current_price, FallbackTargetPct)

\* an exit evaluation that tests the target before the stop
evaluate_exit_target_first(poi_state, c, bar_index, fta, structure_events, config) ==
    LET direction == poi_state.poi_data.direction
    IN  IF poi_state.phase \notin {"POSITIONED", "MANAGING"} THEN <<>>
        ELSE IF \/ poi_state.entry_price = NoValue
                \/ poi_state.stop_loss = NoValue
                \/ poi_state.target = NoValue THEN <<>>
        ELSE IF check_target_hit(c.high, c.low, poi_state.target, direction)
        THEN <<MkSignal("EXIT", poi_state.poi_id, direction, poi_state.target,
                        NoValue, NoValue, ZeroPct, "TARGET_HIT", bar_index)>>
        ELSE IF check_stop_loss_hit(c.high, c.low, poi_state.stop_loss, direction)
        THEN <<MkSignal("EXIT", poi_state.poi_id, direction, poi_state.stop_loss,
                        NoValue, NoValue, ZeroPct, "STOP_LOSS_HIT", bar_index)>>
        ELSE <<>>

\* an evaluation that asks for breakeven whether or not a level is set
evaluate_exit_repeats_be(poi_state, c, bar_index, fta, structure_events, config) ==
    LET direction == poi_state.poi_data.direction
        be_level == check_structural_breakeven(poi_state, structure_events, bar_index, config)
        fta_be == check_fta_breakeven(poi_state, fta, c.close, config)
    IN  IF poi_state.phase \notin {"POSITIONED", "MANAGING"} THEN <<>>
        ELSE IF \/ poi_state.entry_price = NoValue
                \/ poi_state.stop_loss = NoValue
                \/ poi_state.target = NoValue THEN <<>>
        ELSE IF check_stop_loss_hit(c.high, c.low, poi_state.stop_loss, direction)
        THEN <<MkSignal("EXIT", poi_state.poi_id, direction, poi_state.stop_loss,
                        NoValue, NoValue, ZeroPct, "STOP_LOSS_HIT", bar_index)>>
        ELSE IF check_target_hit(c.high, c.low, poi_state.target, direction)
        THEN <<MkSignal("EXIT", poi_state.poi_id, direction, poi_state.target,
                        NoValue, NoValue, ZeroPct, "TARGET_HIT", bar_index)>>
        ELSE IF be_level # <<>>
        THEN <<MkSignal("MOVE_TO_BE", poi_state.poi_id, direction, be_level[1],
                        NoValue, NoValue, ZeroPct, "structural breakeven", bar_index)>>
        ELSE IF fta_be # <<>>
        THEN <<MkSignal("MOVE_TO_BE", poi_state.poi_id, direction, fta_be[1],
                        NoValue, NoValue, ZeroPct, "FTA breakeven", bar_index)>>
        ELSE <<>>

evaluate_exit(poi_state, c, bar_index, fta, structure_events, config) ==
    LET direction == poi_state.poi_data.direction
        be_level == check_structural_breakeven(poi_state, structure_events, bar_index, config)
        fta_be == check_fta_breakeven(poi_state, fta, c.close, config)
    IN  IF poi_state.phase \notin {"POSITIONED", "MANAGING"} THEN <<>>
        ELSE IF \/ poi_state.entry_price = NoValue
                \/ poi_state.stop_loss = NoValue
                \/ poi_state.target = NoValue THEN <<>>
        ELSE IF check_stop_loss_hit(c.high, c.low, poi_state.stop_loss, direction)
        THEN <<MkSignal("EXIT", poi_state.poi_id, direction, poi_state.stop_loss,
                        NoValue, NoValue, ZeroPct, "STOP_LOSS_HIT", bar_index)>>
        ELSE IF check_target_hit(c.high, c.low, poi_state.target, direction)
        THEN <<MkSignal("EXIT", poi_state.poi_id, direction, poi_state.target,
                        NoValue, NoValue, ZeroPct, "TARGET_HIT", bar_index)>>
        ELSE IF be_level # <<>> /\ poi_state.breakeven_level = NoValue
        THEN <<MkSignal("MOVE_TO_BE", poi_state.poi_id, direction, be_level[1],
                        NoValue, NoValue, ZeroPct, "structural breakeven", bar_index)>>
        ELSE IF fta_be # <<>> /\ poi_state.breakeven_level = NoValue
        THEN <<MkSignal("MOVE_TO_BE", poi_state.poi_id, direction, fta_be[1],
                        NoValue, NoValue, ZeroPct, "FTA breakeven", bar_index)>>
        ELSE <<>>

-----------------------------------------------------------------------------
(* Add-ons (strategy/addons.py)                                             *)

find_addon_candidates(direction, current_price, target, local_pois) ==
    LET candidates == SelectRows(local_pois,
                         LAMBDA p : p.direction = direction /\ p.status \in {"ACTIVE", "TESTED"})
    IN  IF direction = 1
        THEN SortBy(SelectRows(candidates,
                        LAMBDA p : p.midpoint > current_price /\ p.midpoint < target),
                    LAMBDA p : p.midpoint)
        ELSE SortBy(SelectRows(candidates,
                        LAMBDA p : p.midpoint < current_price /\ p.midpoint > target),
                    LAMBDA p : 0 - p.midpoint)

evaluate_addon(main_state, candidate_poi, c, bar_index, structure_events) ==
    LET direction == main_state.poi_data.direction
        touches == IF direction = 1 THEN c.low <= candidate_poi.top
                   ELSE c.high >= candidate_poi.bottom
        recent == SelectRows(structure_events,
                     LAMBDA e : /\ e.direction = direction
                                /\ e.broken_index <= bar_index
                                /\ e.broken_index >= bar_index - AddonLookback)
    IN  IF main_state.phase \notin {"POSITIONED", "MANAGING"} THEN <<>>
        ELSE IF ~touches THEN <<>>
        ELSE IF recent = <<>> THEN <<>>
        ELSE <<MkSignal("ADD_ON", main_state.poi_id, direction, c.close,
                        IF main_state.stop_loss = NoValue THEN 0 ELSE main_state.stop_loss,
                        IF main_state.target = NoValue THEN 0 ELSE main_state.target,
                        AddonSizeMult,
                        "add-on", bar_index)>>

-----------------------------------------------------------------------------
(* Trade log (engine/trade_log.py).  The log is the sequence of             *)
(* TradeRecords; trade_id t is at position t + 1.                           *)

classify_outcome(realized_pnl, commission_total) ==
    LET ct == IF commission_total <= 0 THEN 1 ELSE commission_total
    IN  IF Abs(realized_pnl) <= 2 * ct THEN "BREAKEVEN"
        ELSE IF realized_pnl > 0 THEN "WIN" ELSE "LOSS"

\* compute_r_multiple: the quotient reward / risk is kept exact, as the pair
\* of its numerator and its (positive) denominator; 0.0 is 0 / 1
compute_r_multiple(entry_price, exit_price, stop_loss, direction) ==
    LET risk == IF direction = 1 THEN entry_price - stop_loss ELSE stop_loss - entry_price
        reward == IF direction = 1 THEN exit_price - entry_price ELSE entry_price - exit_price
    IN  IF risk <= 0 THEN [num |-> 0, den |-> 1] ELSE [num |-> reward, den |-> risk]

open_trade(log, poi_id, direction, entry_time, entry_price, entry_signal_price, position_size, stop_loss, target, commission, is_addon, parent_trade_id) ==
    Append(log,
           [trade_id |-> Len(log), poi_id |-> poi_id, direction |-> direction,
            entry_time |-> entry_time, entry_price |-> entry_price,
            entry_signal_price |-> entry_signal_price,
            position_size |-> position_size, stop_loss |-> stop_loss,
            target |-> target, commission_entry |-> commission,
            is_addon |-> is_addon, parent_trade_id |-> parent_trade_id,
            exit_time |-> NoValue, exit_price |-> NoValue,
            exit_signal_price |-> NoValue, exit_reason |-> "",
            commission_exit |-> 0, duration_bars |-> 0,
            gross_pnl |-> 0, realized_pnl |-> 0, outcome |-> "", r_multiple |-> [num |-> 0, den |-> 1],
            max_favorable_excursion |-> 0, max_adverse_excursion |-> 0])

\* a closing that books the gross P&L less the exit commission only
close_trade_exit_commission_only(log, trade_id, exit_time, exit_price, exit_signal_price, exit_reason, commission, bar_count) ==
    LET record == log[trade_id + 1]
        gross == record.direction * (exit_price - record.entry_price) * record.position_size
    IN  [log EXCEPT ![trade_id + 1] =
            [record EXCEPT !.exit_time = exit_time,
                           !.exit_price = exit_price,
                           !.exit_signal_price = exit_signal_price,
                           !.exit_reason = exit_reason,
                           !.commission_exit = commission,
                           !.duration_bars = bar_count,
                           !.gross_pnl = gross,
                           !.realized_pnl = gross - commission,
                           !.outcome = classify_outcome(gross - commission,
                                                        record.commission_entry + commission),
                           !.r_multiple = compute_r_multiple(record.entry_price, exit_price,
                                                             record.stop_loss,
                                                             record.direction)]]

close_trade(log, trade_id, exit_time, exit_price, exit_signal_price, exit_reason, commission, bar_count) ==
    LET record == log[trade_id + 1]
        gross == record.direction * (exit_price - record.entry_price) * record.position_size
        total_commission == record.commission_entry + commission
    IN  [log EXCEPT ![trade_id + 1] =
            [record EXCEPT !.exit_time = exit_time,
                           !.exit_price = exit_price,
                           !.exit_signal_price = exit_signal_price,
                           !.exit_reason = exit_reason,
                           !.commission_exit = commission,
                           !.duration_bars = bar_count,
                           !.gross_pnl = gross,
                           !.realized_pnl = gross - total_commission,
                           !.outcome = classify_outcome(gross - total_commission,
                                                        total_commission),
                           !.r_multiple = compute_r_multiple(record.entry_price, exit_price,
                                                             record.stop_loss,
                                                             record.direction)]]

\* an excursion update that stores the bar's excursions instead of the maxima
update_excursion_overwrite(log, trade_id, candle_high, candle_low) ==
    LET record == log[trade_id + 1]
    IN  [log EXCEPT ![trade_id + 1] =
            [record EXCEPT
                !.max_favorable_excursion =
                    IF record.direction = 1 THEN candle_high - record.entry_price
                    ELSE record.entry_price - candle_low,
                !.max_adverse_excursion =
                    IF record.direction = 1 THEN record.entry_price - candle_low
                    ELSE candle_high - record.entry_price]]

update_excursion(log, trade_id, candle_high, candle_low) ==
    LET record == log[trade_id + 1]
        favorable == IF record.direction = 1 THEN candle_high - record.entry_price
                     ELSE record.entry_price - candle_low
        adverse == IF record.direction = 1 THEN record.entry_price - candle_low
                   ELSE candle_high - record.entry_price
    IN  [log EXCEPT ![trade_id + 1] =
            [record EXCEPT
                !.max_favorable_excursion = IF favorable > @ THEN favorable ELSE @,
                !.max_adverse_excursion = IF adverse > @ THEN adverse ELSE @]]

-----------------------------------------------------------------------------
(* Event log (engine/events.py)                                             *)

emit(evs, type, timestamp, poi_id, reason) ==
    Append(evs, [type |-> type, timestamp |-> timestamp, poi_id |-> poi_id,
                 reason |-> reason])

-----------------------------------------------------------------------------
(* Portfolio (engine/portfolio.py).  A portfolio value pf is the record of   *)
(* the object's fields together with the trade log and event log it was     *)
(* constructed with.  _positions is kept as the sequence of the open        *)
(* PositionInfos: a poi_id is a key of the dict iff it has a position in    *)
(* the sequence (close_position deletes a key whose list became empty).     *)

\* a slippage that moves exits in the trader's favour
apply_slippage_favourable(price, direction, is_entry, slippage_pct) ==
    IF direction = 1 THEN price + Pct(price, slippage_pct)
    ELSE price - Pct(price, slippage_pct)

apply_slippage(price, direction, is_entry, slippage_pct) ==
    IF is_entry
    THEN IF direction = 1 THEN price + Pct(price, slippage_pct)
         ELSE price - Pct(price, slippage_pct)
    ELSE IF direction = 1 THEN price - Pct(price, slippage_pct)
         ELSE price + Pct(price, slippage_pct)

RECURSIVE Unrealized(_, _)
Unrealized(poss, close) ==
    IF poss = <<>> THEN 0
    ELSE poss[1].direction * (close - poss[1].entry_price) * poss[1].position_size
         + Unrealized(Tail(poss), close)

equity(pf) == pf.cash + Unrealized(pf.positions, pf.last_close)

OpenPoiIds(poss) == {poss[i].poi_id : i \in 1..Len(poss)}

open_position_count(pf) == Cardinality(OpenPoiIds(pf.positions))

\* a cap test that admits one position more than the maximum
can_open_position_inclusive(pf, config) ==
    open_position_count(pf) <= config.risk.max_concurrent_positions

can_open_position(pf, config) ==
    open_position_count(pf) < config.risk.max_concurrent_positions

get_positions_for_poi(pf, poi_id) ==
    SelectRows(pf.positions, LAMBDA q : q.poi_id = poi_id)

has_position_for_poi(pf, poi_id) == get_positions_for_poi(pf, poi_id) # <<>>

\* a cap test that add-ons do not bypass
cap_rejects_addons_too(pf, signal, is_addon, config) ==
    ~can_open_position(pf, config)

\* open_position: the test that turns a call away at the position cap
cap_rejects(pf, signal, is_addon, config) ==
    /\ ~is_addon
    /\ signal.poi_id \notin OpenPoiIds(pf.positions)
    /\ ~can_open_position(pf, config)

\* open_position returns the pair of the new portfolio and the trade id
\* (NoValue for None)
open_position(pf, signal, timestamp, mode, bar_index, is_addon, parent_trade_id, config) ==
    IF cap_rejects(pf, signal, is_addon, config)
    THEN [pf |-> [pf EXCEPT !.events = emit(@, "POSITION_REJECTED", timestamp,
                                            signal.poi_id, "max_positions_reached")],
          trade_id |-> NoValue]
    ELSE LET fill_price == apply_slippage(signal.price, signal.direction, TRUE,
                                          config.backtest.slippage_pct)
             pf1 == IF pf.last_close = 0 THEN [pf EXCEPT !.last_close = fill_price] ELSE pf
             size == calculate_position_size(equity(pf1), fill_price, signal.stop_loss,
                                             mode, config.risk)
             commission == Pct(fill_price * size, config.backtest.commission_pct)
             trade_id == Len(pf.trades)
         IN  IF size <= 0
             THEN [pf |-> [pf1 EXCEPT !.events = emit(@, "POSITION_REJECTED", timestamp,
                                                      signal.poi_id, "zero_position_size")],
                   trade_id |-> NoValue]
             ELSE [pf |-> [pf1 EXCEPT
                       !.cash = @ - commission,
                       !.trades = open_trade(@, signal.poi_id, signal.direction, timestamp,
                                             fill_price, signal.price, size,
                                             signal.stop_loss, signal.target, commission,
                                             is_addon, parent_trade_id),
                       !.positions = Append(@,
                            [trade_id |-> trade_id, poi_id |-> signal.poi_id,
                             direction |-> signal.direction, entry_price |-> fill_price,
                             position_size |-> size, stop_loss |-> signal.stop_loss,
                             target |-> signal.target, entry_bar_index |-> bar_index,
                             is_addon |-> is_addon, parent_trade_id |-> parent_trade_id]),
                       !.events = emit(@, IF is_addon THEN "ADDON" ELSE "ENTRY", timestamp,
                                       signal.poi_id, "")],
                   trade_id |-> trade_id]

\* the loop of close_position over the positions to close
RECURSIVE ClosePositions(_, _, _, _, _, _)
ClosePositions(pf, to_close, exit_signal_price, exit_reason, timestamp_bar, config) ==
    IF to_close = <<>> THEN pf
    ELSE LET pos == to_close[1]
             fill_price == apply_slippage(exit_signal_price, pos.direction, FALSE,
                                          config.backtest.slippage_pct)
             commission == Pct(fill_price * pos.position_size, config.backtest.commission_pct)
             proceeds == pos.direction * (fill_price - pos.entry_price) * pos.position_size
         IN  ClosePositions(
                 [pf EXCEPT !.cash = @ + proceeds - commission,
                            !.trades = close_trade(@, pos.trade_id, timestamp_bar[1],
                                                   fill_price, exit_signal_price, exit_reason,
                                                   commission,
                                                   timestamp_bar[2] - pos.entry_bar_index)],
                 Tail(to_close), exit_signal_price, exit_reason, timestamp_bar, config)

\* close_position; trade_id is NoValue for None.  A trade_id that is not a
\* position of poi_id is outside the calls modelled.
close_position(pf, poi_id, exit_signal_price, exit_reason, timestamp, bar_index, trade_id, config) ==
    IF poi_id \notin OpenPoiIds(pf.positions) THEN pf
    ELSE LET mine == get_positions_for_poi(pf, poi_id)
             to_close == IF trade_id = NoValue THEN mine
                         ELSE SelectRows(mine, LAMBDA q : q.trade_id = trade_id)
             pf1 == ClosePositions(pf, to_close, exit_signal_price, exit_reason,
                                   <<timestamp, bar_index>>, config)
         IN  [pf1 EXCEPT
                 !.positions = SelectRows(@, LAMBDA q :
                                    q.poi_id # poi_id
                                    \/ (trade_id # NoValue /\ q.trade_id # trade_id)),
                 !.events = emit(@, "EXIT", timestamp, poi_id, exit_reason)]

modify_stop_loss(pf, poi_id, new_sl) ==
    [pf EXCEPT !.positions =
        [i \in 1..Len(@) |-> IF @[i].poi_id = poi_id
                             THEN [@[i] EXCEPT !.stop_loss = new_sl] ELSE @[i]]]

RECURSIVE UpdateExcursions(_, _, _, _)
UpdateExcursions(log, poss, candle_high, candle_low) ==
    IF poss = <<>> THEN log
    ELSE UpdateExcursions(update_excursion(log, poss[1].trade_id, candle_high, candle_low),
                          Tail(poss), candle_high, candle_low)

\* a mark-to-market that records the equity before it takes the new close
mark_to_market_stale(pf, bar_index, candle_high, candle_low, candle_close) ==
    LET pf1 == [pf EXCEPT !.trades = UpdateExcursions(@, pf.positions, candle_high, candle_low)]
        pf2 == IF 0 <= bar_index /\ bar_index < Len(pf.equity_curve)
               THEN [pf1 EXCEPT !.equity_curve[bar_index + 1] = <<equity(pf1)>>]
               ELSE pf1
    IN  [pf2 EXCEPT !.last_close = candle_close]

\* equity_curve is the array of n_bars cells, a cell being <<>> (NaN) or <<v>>
update_mark_to_market(pf, bar_index, candle_high, candle_low, candle_close) ==
    LET pf1 == [pf EXCEPT !.last_close = candle_close,
                          !.trades = UpdateExcursions(@, pf.positions, candle_high, candle_low)]
    IN  IF 0 <= bar_index /\ bar_index < Len(pf.equity_curve)
        THEN [pf1 EXCEPT !.equity_curve[bar_index + 1] = <<equity(pf1)>>]
        ELSE pf1

\* Portfolio.get_open_poi_ids is called by Backtester.run and defined nowhere
\* in the sources; it is modelled from the run's end-of-data rule: the poi-ids
\* that still have an open position.
get_open_poi_ids(pf) == OpenPoiIds(pf.positions)

-----------------------------------------------------------------------------
(* Backtester handlers (engine/backtester.py).  A world value w holds what  *)
(* the handlers of one bar read and write: the state machine manager's      *)
(* states, the portfolio (with trade log and event log), the signal list    *)
(* and the registered POI keys.                                             *)

\* the backtest_config and risk_config the Portfolio is constructed with
PortfolioConfig == [backtest |-> cfg.backtest, risk |-> cfg.strategy.risk]

StateOf(sts, poi_id) == sts[IndexOf(sts, poi_id)]

PoiIdsOf(sts) == [i \in 1..Len(sts) |-> sts[i].poi_id]

InList(x, list) == \E i \in 1..Len(list) : list[i] = x

\* a fingerprint test that never finds the fingerprint
never_registered(keys, key) == FALSE

\* _register_new_pois: the fingerprint of the row was seen before
already_registered(keys, key) == key \in keys

\* _register_new_pois: the rows of one timeframe
RECURSIVE RegisterRows(_, _, _, _)
RegisterRows(w, tf, rows, timestamp) ==
    IF rows = <<>> THEN w
    ELSE LET poi == rows[1]
             key == <<tf, poi.direction, poi.top, poi.bottom>>
         IN  IF already_registered(w.registered_keys, key)
             THEN RegisterRows(w, tf, Tail(rows), timestamp)
             ELSE RegisterRows(
                     [w EXCEPT
                        !.registered_keys = @ \cup {key},
                        !.states = register_poi(@, w.next_index,
                                                [poi EXCEPT !.timeframe = tf]),
                        !.next_index = @ + 1,
                        !.pf.events = emit(@, "POI_REGISTERED", timestamp,
                                           w.next_index, "")],
                     tf, Tail(rows), timestamp)

RECURSIVE RegisterTfs(_, _, _)
RegisterTfs(w, tfs, timestamp) ==
    IF tfs = <<>> THEN w
    ELSE RegisterTfs(RegisterRows(w, tfs[1], get_pois_at(tfs[1], timestamp), timestamp),
                     Tail(tfs), timestamp)

register_new_pois(w, timestamp) == RegisterTfs(w, cfg.timeframes, timestamp)

\* an HTF choice that always takes the last configured timeframe
htf_of_last(tfs) == IF tfs # <<>> THEN tfs[Len(tfs)] ELSE "1m"

\* _update_bias_sync: the timeframes the two biases are read from
HtfOf(tfs) == IF InList("1H", tfs) THEN "1H"
              ELSE IF tfs # <<>> THEN tfs[Len(tfs)] ELSE "1m"
LtfOf(tfs) == IF InList("5m", tfs) THEN "5m"
              ELSE IF Len(tfs) > 1 THEN tfs[2] ELSE "1m"

HtfBiasAt(timestamp) ==
    determine_bias_at(HtfOf(cfg.timeframes),
                      get_structure_at(HtfOf(cfg.timeframes), timestamp), timestamp)
LtfBiasAt(timestamp) ==
    determine_bias_at(LtfOf(cfg.timeframes),
                      get_structure_at(LtfOf(cfg.timeframes), timestamp), timestamp)

\* _process_bar step a: does some non-1m timeframe close at this bar
BoundaryAt(timestamp) ==
    \E i \in 1..Len(cfg.timeframes) :
        cfg.timeframes[i] # "1m" /\ tf_just_closed(cfg.timeframes[i], timestamp)

\* _handle_exits: what the loop body does with the evaluated exit signal
ExitTake(w, poi_id, exit_signal, bar_index, timestamp) ==
    IF exit_signal = <<>> THEN w
    ELSE IF exit_signal[1].type = "EXIT"
    THEN [w EXCEPT
            !.signals = Append(@, exit_signal[1]),
            !.pf = close_position(@, poi_id, exit_signal[1].price, exit_signal[1].reason,
                                  timestamp, bar_index, NoValue, PortfolioConfig),
            !.states = close_poi(@, poi_id)]
    ELSE IF exit_signal[1].type = "MOVE_TO_BE"
    THEN [w EXCEPT
            !.signals = Append(@, exit_signal[1]),
            !.pf = modify_stop_loss(@, poi_id, exit_signal[1].price),
            !.states = set_managing(
                          [@ EXCEPT ![IndexOf(@, poi_id)] =
                              [@ EXCEPT !.breakeven_level = exit_signal[1].price,
                                        !.stop_loss = exit_signal[1].price]],
                          poi_id)]
    ELSE [w EXCEPT !.signals = Append(@, exit_signal[1])]

\* _handle_exits: the first trouble area of a POSITIONED/MANAGING state
ExitFta(state, c, active_pois) ==
    IF state.target # NoValue /\ active_pois # <<>>
    THEN detect_fta(c.close, state.target, state.poi_data.direction, active_pois)
    ELSE <<>>

\* _handle_exits: the body of the loop for one POSITIONED/MANAGING state
ExitOne(w, poi_id, c, bar_index, timestamp) ==
    ExitTake(w, poi_id,
             evaluate_exit(StateOf(w.states, poi_id), c, bar_index,
                           ExitFta(StateOf(w.states, poi_id), c,
                                   get_all_active_pois(timestamp)),
                           mtf["1m"].structure, cfg.strategy),
             bar_index, timestamp)

RECURSIVE ExitLoop(_, _, _, _, _)
ExitLoop(w, ids, c, bar_index, timestamp) ==
    IF ids = <<>> THEN w
    ELSE ExitLoop(ExitOne(w, ids[1], c, bar_index, timestamp), Tail(ids),
                  c, bar_index, timestamp)

handle_exits(w, c, bar_index, timestamp) ==
    ExitLoop(w, PoiIdsOf(get_positioned_states(w.states)), c, bar_index, timestamp)

\* _handle_entries: the target of an entry signal is replaced by target_est
WithTarget(entry_signal, target_est) ==
    IF entry_signal = <<>> THEN <<>>
    ELSE <<[entry_signal[1] EXCEPT !.target = target_est]>>

\* _handle_entries: what one READY state's entry evaluation yields
EntrySignalFor(state, c, bar_index, timestamp, mode) ==
    LET active_pois == get_all_active_pois(timestamp)
        target_est == select_target(state.poi_data.direction, c.close, active_pois,
                                    mtf["1m"].swing_points)
        fta == IF active_pois # <<>>
               THEN detect_fta(c.close, target_est, state.poi_data.direction, active_pois)
               ELSE <<>>
        fta_class == IF fta # <<>>
                     THEN classify_fta_distance(fta[1], c.close, target_est, FtaCloseThreshold)
                     ELSE "none"
    IN  WithTarget(evaluate_entry(state, c, bar_index, fta, fta_class, mode,
                                  mtf["1m"].fvgs, mtf["1m"].liquidity, cfg.strategy),
                   target_est)

\* _handle_entries: the FTA of the state is not None and is classified close
FtaCloseFor(state, c, timestamp) ==
    LET active_pois == get_all_active_pois(timestamp)
        target_est == select_target(state.poi_data.direction, c.close, active_pois,
                                    mtf["1m"].swing_points)
        fta == IF active_pois # <<>>
               THEN detect_fta(c.close, target_est, state.poi_data.direction, active_pois)
               ELSE <<>>
    IN  /\ fta # <<>>
        /\ classify_fta_distance(fta[1], c.close, target_est, FtaCloseThreshold) = "close"

\* _handle_entries: the signal is recorded; when the portfolio opened the
\* position (res) the POI becomes POSITIONED at the trade's fill price
EntryOpened(w, poi_id, sig, res) ==
    IF res.trade_id = NoValue
    THEN [w EXCEPT !.signals = Append(@, sig), !.pf = res.pf]
    ELSE [w EXCEPT !.signals = Append(@, sig),
                   !.pf = res.pf,
                   !.states = set_positioned(@, poi_id,
                                             res.pf.trades[res.trade_id + 1].entry_price,
                                             sig.stop_loss, sig.target)]

\* _handle_entries: what the loop body does with the evaluated entry signal
EntryTake(w, poi_id, entry_signal, bar_index, timestamp) ==
    IF entry_signal = <<>> THEN w
    ELSE EntryOpened(w, poi_id, entry_signal[1],
                     open_position(w.pf, entry_signal[1], timestamp, w.sync_mode,
                                   bar_index, FALSE, NoValue, PortfolioConfig))

\* _handle_entries: the body of the loop for one READY state
EntryOne(w, poi_id, c, bar_index, timestamp) ==
    IF has_position_for_poi(w.pf, poi_id) THEN w
    ELSE IF ~can_open_position(w.pf, PortfolioConfig)
    THEN [w EXCEPT !.pf.events = emit(@, "POSITION_REJECTED", timestamp, poi_id,
                                      "max_positions_reached")]
    ELSE EntryTake(w, poi_id,
                   EntrySignalFor(StateOf(w.states, poi_id), c, bar_index, timestamp,
                                  w.sync_mode),
                   bar_index, timestamp)

RECURSIVE EntryLoop(_, _, _, _, _)
EntryLoop(w, ids, c, bar_index, timestamp) ==
    IF ids = <<>> THEN w
    ELSE EntryLoop(EntryOne(w, ids[1], c, bar_index, timestamp), Tail(ids),
                   c, bar_index, timestamp)

handle_entries(w, c, bar_index, timestamp) ==
    EntryLoop(w, PoiIdsOf(get_ready_states(w.states)), c, bar_index, timestamp)

\* _handle_addons: the local timeframe the add-on POIs are read from
AddonTfOf(tfs) == IF InList("15m", tfs) THEN "15m" ELSE "5m"

\* _handle_addons: the body of the loop for one POSITIONED/MANAGING state
AddonOne(w, poi_id, c, bar_index, timestamp) ==
    LET state == StateOf(w.states, poi_id)
        local_pois == get_pois_at(AddonTfOf(cfg.timeframes), timestamp)
        candidates == find_addon_candidates(state.poi_data.direction, c.close,
                                            state.target, local_pois)
        addon_signal == IF candidates = <<>> THEN <<>>
                        ELSE evaluate_addon(state, candidates[1], c, bar_index,
                                            mtf["1m"].structure)
        parent_positions == get_positions_for_poi(w.pf, poi_id)
        parent_id == IF parent_positions # <<>> THEN parent_positions[1].trade_id
                     ELSE NoValue
    IN  IF state.target = NoValue THEN w
        ELSE IF addon_signal = <<>> THEN w
        ELSE [w EXCEPT
                !.signals = Append(@, addon_signal[1]),
                !.pf = open_position(@, addon_signal[1], timestamp, w.sync_mode, bar_index,
                                     TRUE, parent_id, PortfolioConfig).pf]

RECURSIVE AddonLoop(_, _, _, _, _)
AddonLoop(w, ids, c, bar_index, timestamp) ==
    IF ids = <<>> THEN w
    ELSE AddonLoop(AddonOne(w, ids[1], c, bar_index, timestamp), Tail(ids),
                   c, bar_index, timestamp)

handle_addons(w, c, bar_index, timestamp) ==
    AddonLoop(w, PoiIdsOf(get_positioned_states(w.states)), c, bar_index, timestamp)

\* _update_bias_sync
update_bias_sync(w, timestamp) ==
    LET htf == HtfBiasAt(timestamp)
        ltf == LtfBiasAt(timestamp)
    IN  [w EXCEPT !.htf_bias = htf,
                  !.ltf_bias = ltf,
                  !.sync_mode = check_sync(htf, ltf),
                  !.pf.events = emit(emit(@, "BIAS_UPDATED", timestamp, NoValue, ""),
                                     "SYNC_UPDATED", timestamp, NoValue, "")]

\* _process_bar step b: ConceptData built from the 1m tables
ConceptData1m ==
    [nearby_fvgs |-> mtf["1m"].fvgs, fvg_lifecycle |-> mtf["1m"].fvg_lifecycle,
     nearby_liquidity |-> mtf["1m"].liquidity, structure_events |-> mtf["1m"].structure]

\* _process_bar steps a-c: boundary check, concept data, state machine update
bar_prefix(w, c, bar_index, timestamp) ==
    LET w1 == IF BoundaryAt(timestamp)
              THEN update_bias_sync(register_new_pois(w, timestamp), timestamp)
              ELSE w
    IN  [w1 EXCEPT !.states = update(@, c, bar_index, ConceptData1m,
                                     cfg.strategy.confirmations)]

\* the handlers with entries evaluated before exits
entries_before_exits(w, c, bar_index, timestamp) ==
    handle_addons(handle_exits(handle_entries(w, c, bar_index, timestamp),
                               c, bar_index, timestamp),
                  c, bar_index, timestamp)

\* _process_bar steps d-f: exits first, then entries, then add-ons
bar_handlers(w, c, bar_index, timestamp) ==
    handle_addons(handle_entries(handle_exits(w, c, bar_index, timestamp),
                                 c, bar_index, timestamp),
                  c, bar_index, timestamp)

\* _process_bar
\* _process_bar step g: mark to market
bar_mark_to_market(w, c, bar_index) ==
    [w EXCEPT !.pf = update_mark_to_market(@, bar_index, c.high, c.low, c.close)]

process_bar(w, c, bar_index, timestamp) ==
    bar_mark_to_market(
        bar_handlers(bar_prefix(w, c, bar_index, timestamp), c, bar_index, timestamp),
        c, bar_index)

\* Backtester.run step 7: close what is still open at the last close
RECURSIVE CloseAll(_, _, _, _, _)
CloseAll(pf, ids, last_close_price, last_ts, last_bar) ==
    IF ids = {} THEN pf
    ELSE LET poi_id == CHOOSE x \in ids : \A y \in ids : x <= y
         IN  CloseAll(close_position(pf, poi_id, last_close_price, "END_OF_DATA", last_ts,
                                     last_bar, NoValue, PortfolioConfig),
                      ids \ {poi_id}, last_close_price, last_ts, last_bar)

\* an end-of-data close at the last bar's open instead of its close
close_remaining_at_open(w, last_candle, n_bars) ==
    [w EXCEPT !.pf = CloseAll(@, get_open_poi_ids(@), last_candle.open,
                              BarTime(n_bars - 1), n_bars - 1)]

close_remaining(w, last_candle, n_bars) ==
    [w EXCEPT !.pf = CloseAll(@, get_open_poi_ids(@), last_candle.close,
                              BarTime(n_bars - 1), n_bars - 1)]

-----------------------------------------------------------------------------
(* Inputs: configurations, candles and pre-computed artifact tables         *)

PctOf(n, d) == [num |-> n, den |-> d]

MkConfig(tfs, min_count, max_count, mode, rto_wait, max_positions) ==
    [timeframes |-> tfs,
     strategy |->
        [confirmations |-> [min_count |-> min_count, max_count |-> max_count],
         entry |-> [mode |-> mode, rto_wait |-> rto_wait],
         breakeven |-> [structural_bu |-> TRUE, fta_bu |-> TRUE],
         fta |-> [close_threshold_pct |-> PctOf(3, 10)],
         risk |-> [position_size_sync |-> PctOf(1, 1),
                   position_size_desync |-> PctOf(1, 2),
                   max_risk_per_trade |-> PctOf(2, 100),
                   max_concurrent_positions |-> max_positions]],
     backtest |-> [initial_capital |-> 1000000,
                   commission_pct |-> PctOf(6, 10000),
                   slippage_pct |-> PctOf(2, 10000)]]

\* config.py defaults on four timeframes
CfgDefault == MkConfig(<<"1m", "5m", "15m", "1H">>, 5, 8, "conservative", TRUE, 3)
\* the defaults with one position slot
CfgOneSlot == MkConfig(<<"1m", "5m", "15m", "1H">>, 5, 8, "conservative", TRUE, 1)
\* a quick configuration: two confirmations, aggressive entries, one slot
CfgQuick == MkConfig(<<"1m", "5m", "15m", "1H">>, 2, 3, "aggressive", FALSE, 1)
\* the quick configuration with fta.close_threshold_pct = 0
CfgFtaZero == [CfgQuick EXCEPT !.strategy.fta.close_threshold_pct = PctOf(0, 1)]
\* a configuration without 15m and 1H
CfgShort == MkConfig(<<"1m", "5m", "4H">>, 2, 3, "aggressive", FALSE, 2)

Candle(o, h, l, c) == [open |-> o, high |-> h, low |-> l, close |-> c]

CandleTap == Candle(10900, 11000, 10700, 10900)    \* dips to 107.00, closes at 109.00
CandleQuiet == Candle(10900, 11000, 10850, 10950)  \* stays between 108.50 and 110.00
CandleUp == Candle(10900, 13200, 10850, 13000)     \* rallies to 132.00
CandleDown == Candle(10900, 10950, 9700, 9800)     \* drops to 97.00
CandleWide == Candle(10900, 13500, 9500, 11000)    \* spans 95.00 to 135.00

CandleDip == Candle(10900, 11000, 10800, 10900)    \* dips to 108.00, closes at 109.00

CandleHold == Candle(11100, 11500, 11050, 11300)   \* holds between 110.50 and 115.00

CandleSet == {CandleTap, CandleQuiet, CandleUp, CandleDown, CandleWide, CandleDip,
              CandleHold}

\* a row of the POI registry; fvg_creation_index is the creation_index of its
\* latest FVG component on its timeframe (NoValue: no FVG component)
Poi(direction, top, bottom, score, fvg_creation_index) ==
    [direction |-> direction, top |-> top, bottom |-> bottom,
     midpoint |-> (top + bottom) \div 2, score |-> score, status |-> "ACTIVE",
     fvg_creation_index |-> fvg_creation_index, creation_time |-> NoValue,
     timeframe |-> ""]

Fvg(direction, top, bottom, creation_index) ==
    [direction |-> direction, top |-> top, bottom |-> bottom,
     midpoint |-> (top + bottom) \div 2, start_index |-> creation_index,
     creation_index |-> creation_index, status |-> "FRESH"]

Lifecycle(fvg_idx, fvg, status, inversion_index) ==
    [fvg_idx |-> fvg_idx, direction |-> fvg.direction, top |-> fvg.top,
     bottom |-> fvg.bottom, midpoint |-> fvg.midpoint,
     creation_index |-> fvg.creation_index, status |-> status,
     inversion_index |-> inversion_index]

Liquidity(direction, level, indices) ==
    [direction |-> direction, level |-> level, count |-> Len(indices),
     indices |-> indices, status |-> "ACTIVE"]

Structure(type, direction, broken_level, broken_index) ==
    [type |-> type, direction |-> direction, broken_level |-> broken_level,
     broken_index |-> broken_index]

Swing(direction, level, orig_index) ==
    [direction |-> direction, level |-> level, orig_index |-> orig_index]

Tables(pois, structure, fvgs, fvg_lifecycle, liquidity, swing_points) ==
    [pois |-> pois, structure |-> structure, fvgs |-> fvgs,
     fvg_lifecycle |-> fvg_lifecycle, liquidity |-> liquidity,
     swing_points |-> swing_points]

NoTables == Tables(<<>>, <<>>, <<>>, <<>>, <<>>, <<>>)

FvgBull == Fvg(1, 10900, 10700, 2)
FvgBear == Fvg(-1, 11100, 10950, 1)

\* 1m tables around a demand zone: a bullish FVG, a bearish FVG inverted at
\* bar 2, sell-side liquidity, two bullish breaks, a swing high
OneMinLong ==
    Tables(<<>>,
           <<Structure("BOS", 1, 10950, 0), Structure("CBOS", 1, 11000, 2),
             Structure("BOS", 1, 11200, 3)>>,
           <<FvgBull, FvgBear>>,
           <<Lifecycle(0, FvgBull, "TESTED", NoValue), Lifecycle(1, FvgBear, "INVERTED", 2)>>,
           <<Liquidity(-1, 10750, <<0, 1>>)>>,
           <<Swing(1, 12000, 1)>>)

\* 1m tables with a single bullish break and nothing else
OneMinSparse ==
    Tables(<<>>, <<Structure("BOS", 1, 10950, 1)>>, <<>>, <<>>, <<>>, <<>>)

\* 1m tables around a supply zone: buy-side liquidity, a bearish break, a swing low
OneMinShort ==
    Tables(<<Poi(-1, 12900, 12500, 1, 1)>>,
           <<Structure("BOS", -1, 12000, 1), Structure("CBOS", -1, 11800, 1)>>,
           <<Fvg(-1, 13300, 13100, 2)>>,
           <<>>,
           <<Liquidity(1, 13100, <<0, 2>>)>>,
           <<Swing(-1, 10500, 0)>>)

BullBias == <<Structure("BOS", 1, 10000, 0)>>
BearBias == <<Structure("BOS", -1, 12000, 0)>>

PoiA == Poi(1, 10800, 10000, 5, NoValue)
PoiB == Poi(1, 10850, 10200, 3, 0)
PoiE == Poi(1, 11050, 10850, 3, 0)
PoiF == Poi(-1, 11600, 11400, 2, NoValue)
PoiS == Poi(-1, 12800, 12400, 4, NoValue)
PoiLate == Poi(1, 10820, 10100, 1, 1)
PoiNear == Poi(-1, 11200, 11000, 2, NoValue)

\* The inputs of a run: a configuration and the tables of each of its
\* timeframes
Scenarios ==
    { \* defaults, SYNC: demand zone, an opposing zone in the path, a local zone
      [cfg |-> CfgDefault,
       tables |-> [tf \in {"1m", "5m", "15m", "1H"} |->
           CASE tf = "1m" -> OneMinLong
             [] tf = "5m" -> [NoTables EXCEPT !.pois = <<PoiA, PoiF, PoiLate>>,
                                              !.structure = BullBias]
             [] tf = "15m" -> [NoTables EXCEPT !.pois = <<PoiE>>]
             [] tf = "1H" -> [NoTables EXCEPT !.structure = BullBias]]],
      \* one slot, SYNC: two demand zones compete for the slot
      [cfg |-> CfgOneSlot,
       tables |-> [tf \in {"1m", "5m", "15m", "1H"} |->
           CASE tf = "1m" -> OneMinLong
             [] tf = "5m" -> [NoTables EXCEPT !.pois = <<PoiA, PoiB>>,
                                              !.structure = BullBias]
             [] tf = "15m" -> NoTables
             [] tf = "1H" -> [NoTables EXCEPT !.structure = BullBias]]],
      \* quick entries, DESYNC: two demand zones, sparse 1m tables
      [cfg |-> CfgQuick,
       tables |-> [tf \in {"1m", "5m", "15m", "1H"} |->
           CASE tf = "1m" -> OneMinSparse
             [] tf = "5m" -> [NoTables EXCEPT !.pois = <<PoiA, PoiS>>,
                                              !.structure = BearBias]
             [] tf = "15m" -> [NoTables EXCEPT !.pois = <<PoiB>>]
             [] tf = "1H" -> [NoTables EXCEPT !.structure = BullBias]]],
      \* quick entries, no LTF structure: the bias is UNDEFINED
      [cfg |-> CfgQuick,
       tables |-> [tf \in {"1m", "5m", "15m", "1H"} |->
           CASE tf = "1m" -> OneMinLong
             [] tf = "5m" -> [NoTables EXCEPT !.pois = <<PoiA>>]
             [] tf = "15m" -> NoTables
             [] tf = "1H" -> [NoTables EXCEPT !.structure = BullBias]]],
      \* close_threshold_pct = 0, SYNC: a demand zone with a supply zone just
      \* above the price
      [cfg |-> CfgFtaZero,
       tables |-> [tf \in {"1m", "5m", "15m", "1H"} |->
           CASE tf = "1m" -> OneMinLong
             [] tf = "5m" -> [NoTables EXCEPT !.pois = <<PoiA, PoiNear>>,
                                              !.structure = BullBias]
             [] tf = "15m" -> NoTables
             [] tf = "1H" -> [NoTables EXCEPT !.structure = BullBias]]],
      \* no 15m and no 1H, SYNC bearish: supply zones
      [cfg |-> CfgShort,
       tables |-> [tf \in {"1m", "5m", "4H"} |->
           CASE tf = "1m" -> OneMinShort
             [] tf = "5m" -> [NoTables EXCEPT !.pois = <<PoiS, Poi(-1, 12300, 12100, 2, 0),
                                                         Poi(-1, 12700, 12350, 3, NoValue)>>,
                                              !.structure = BearBias]
             [] tf = "4H" -> [NoTables EXCEPT !.structure = BearBias]]] }

\* minute of the first bar: the second bar closes a 5m and a 15m candle
FirstMinute == 13

-----------------------------------------------------------------------------
(* The backtest run (Backtester.run), from the point where the manager      *)
(* holds the tables of every timeframe and the components are constructed   *)

\* the tables of a scenario with creation_time added to the POIs
\* (MTFManager._compute_tf)
BuildMtf(sc) ==
    [tf \in DOMAIN sc.tables |->
        [sc.tables[tf] EXCEPT !.pois =
            [i \in 1..Len(@) |-> add_poi_creation_times(tf, @[i])]]]

\* Portfolio.__init__
NewPortfolio(config, n_bars) ==
    [positions |-> <<>>, cash |-> config.backtest.initial_capital, last_close |-> 0,
     equity_curve |-> [i \in 1..n_bars |-> <<>>], trades |-> <<>>, events |-> <<>>]

\* the state the handlers read and write, as one value
World ==
    [states |-> states, next_index |-> next_index, registered_keys |-> registered_keys,
     htf_bias |-> htf_bias, ltf_bias |-> ltf_bias, sync_mode |-> sync_mode,
     signals |-> signals,
     pf |-> [positions |-> positions, cash |-> cash, last_close |-> last_close,
             equity_curve |-> equity_curve, trades |-> trades, events |-> events]]

SetWorld(w) ==
    /\ states' = w.states
    /\ next_index' = w.next_index
    /\ registered_keys' = w.registered_keys
    /\ htf_bias' = w.htf_bias
    /\ ltf_bias' = w.ltf_bias
    /\ sync_mode' = w.sync_mode
    /\ signals' = w.signals
    /\ positions' = w.pf.positions
    /\ cash' = w.pf.cash
    /\ last_close' = w.pf.last_close
    /\ equity_curve' = w.pf.equity_curve
    /\ trades' = w.pf.trades
    /\ events' = w.pf.events

NoObs == [bar |-> NoValue, full_at_start |-> FALSE, exited |-> FALSE,
          candidate |-> NoValue, open_at_entries |-> 0, ready |-> <<>>,
          entrants |-> <<>>, fta_blocked |-> <<>>, series |-> <<>>, first |-> <<>>]

\* what run() has built when it reaches step 4
InitComponents(sc, n_bars) ==
    /\ cfg = sc.cfg
    /\ t0 = FirstMinute
    /\ mtf = BuildMtf(sc)
    /\ bar_idx = 0
    /\ candle = Candle(0, 0, 0, 0)
    /\ states = <<>>
    /\ next_index = 0
    /\ registered_keys = {}
    /\ htf_bias = "UNDEFINED"
    /\ ltf_bias = "UNDEFINED"
    /\ sync_mode = "UNDEFINED"
    /\ positions = <<>>
    /\ cash = sc.cfg.backtest.initial_capital
    /\ last_close = 0
    /\ equity_curve = [i \in 1..n_bars |-> <<>>]
    /\ trades = <<>>
    /\ events = <<>>
    /\ signals = <<>>
    /\ calls = 0
    /\ obs = NoObs

Init ==
    /\ pc = "register"
    /\ \E sc \in Scenarios : InitComponents(sc, NBars)

\* run steps 4 and 5: the POIs and the bias of the first timestamp
RegisterInitial ==
    /\ pc = "register"
    /\ SetWorld(update_bias_sync(register_new_pois(World, BarTime(0)), BarTime(0)))
    /\ pc' = "loop"
    /\ UNCHANGED <<cfg, t0, mtf, bar_idx, candle, calls, obs>>

\* the first READY state, in the manager's order, that _handle_entries would
\* enter given the portfolio w.pf
SignalOpens(w, sig, bar_index, timestamp) ==
    /\ sig # <<>>
    /\ open_position(w.pf, sig[1], timestamp, w.sync_mode, bar_index,
                     FALSE, NoValue, PortfolioConfig).trade_id # NoValue

Enters(w, poi_id, c, bar_index, timestamp) ==
    /\ ~has_position_for_poi(w.pf, poi_id)
    /\ can_open_position(w.pf, PortfolioConfig)
    /\ SignalOpens(w, EntrySignalFor(StateOf(w.states, poi_id), c, bar_index, timestamp,
                                     w.sync_mode),
                   bar_index, timestamp)

FirstOr(ids, default) == IF ids = <<>> THEN default ELSE ids[1]

\* the READY states, in the manager's order, that _handle_entries would
\* enter given the portfolio w.pf
Entrants(w, c, bar_index, timestamp) ==
    SelectSeq(PoiIdsOf(get_ready_states(w.states)),
              LAMBDA poi_id : Enters(w, poi_id, c, bar_index, timestamp))

\* the READY states whose entry evaluation was reached (no position, a slot
\* still free when the bar's entries were done: w_end) and returned None for
\* the close FTA alone
FtaBlocked(w, w_end, c, bar_index, timestamp) ==
    SelectSeq(PoiIdsOf(get_ready_states(w.states)),
              LAMBDA poi_id :
                 /\ ~has_position_for_poi(w.pf, poi_id)
                 /\ can_open_position(w_end.pf, PortfolioConfig)
                 /\ FtaCloseFor(StateOf(w.states, poi_id), c, timestamp)
                 /\ evaluate_entry(StateOf(w.states, poi_id), c, bar_index, <<>>, "none",
                                   w.sync_mode, mtf["1m"].fvgs, mtf["1m"].liquidity,
                                   cfg.strategy) # <<>>)

EntryCandidate(w, c, bar_index, timestamp) ==
    FirstOr(Entrants(w, c, bar_index, timestamp), NoValue)

\* run step 6, one iteration: bar bar_idx of the series is processed
ProcessBar ==
    /\ pc = "loop"
    /\ bar_idx < NBars
    /\ \E c \in CandleSet :
          /\ candle' = c
          /\ SetWorld(process_bar(World, c, bar_idx, BarTime(bar_idx)))
          /\ \E wb \in {bar_prefix(World, c, bar_idx, BarTime(bar_idx))} :
             \E wx \in {handle_exits(wb, c, bar_idx, BarTime(bar_idx))} :
             \E we \in {handle_entries(wx, c, bar_idx, BarTime(bar_idx))} :
                obs' = [bar |-> bar_idx,
                        full_at_start |-> ~can_open_position(World.pf, PortfolioConfig),
                        exited |-> open_position_count(wx.pf) < open_position_count(wb.pf),
                        candidate |-> EntryCandidate(wx, c, bar_idx, BarTime(bar_idx)),
                        open_at_entries |-> open_position_count(wx.pf),
                        ready |-> PoiIdsOf(get_ready_states(wx.states)),
                        entrants |-> Entrants(wx, c, bar_idx, BarTime(bar_idx)),
                        fta_blocked |-> FtaBlocked(wx, we, c, bar_idx, BarTime(bar_idx)),
                        series |-> Append(obs.series, c),
                        first |-> <<>>]
    /\ bar_idx' = bar_idx + 1
    /\ pc' = "loop"
    /\ UNCHANGED <<cfg, t0, mtf, calls>>

\* run step 7: what is still open is closed at the last close
CloseRemaining ==
    /\ pc = "loop"
    /\ bar_idx = NBars
    /\ SetWorld(close_remaining(World, candle, NBars))
    /\ pc' = "close"
    /\ UNCHANGED <<cfg, t0, mtf, bar_idx, candle, calls, obs>>

\* run steps 8 and 9: the result is returned
Return ==
    /\ pc = "close"
    /\ pc' = "done"
    /\ UNCHANGED <<cfg, t0, mtf, bar_idx, candle, states, next_index, registered_keys,
                   htf_bias, ltf_bias, sync_mode, positions, cash, last_close,
                   equity_curve, trades, events, signals, calls, obs>>

Next == RegisterInitial \/ ProcessBar \/ CloseRemaining \/ Return

Spec == Init /\ [][Next]_vars

-----------------------------------------------------------------------------
(* A second run of the same Backtester over the same series                 *)

\* a restart that keeps the POI fingerprints of the previous run
restart_keeps_keys(w, n_bars) ==
    [w EXCEPT !.states = <<>>, !.next_index = 0, !.signals = <<>>,
              !.pf = NewPortfolio(cfg, n_bars)]

\* run steps 2 and 3 on a Backtester that has run before: the components,
\* the signals and the fingerprints are new, the bias fields are left as
\* they were
restart_components(w, n_bars) ==
    [w EXCEPT !.states = <<>>, !.next_index = 0, !.registered_keys = {},
              !.signals = <<>>, !.pf = NewPortfolio(cfg, n_bars)]

\* run step 6 from bar i (1-based) of the series
RECURSIVE RunBars(_, _, _)
RunBars(w, series, i) ==
    IF i > Len(series) THEN w
    ELSE RunBars(process_bar(w, series[i], i - 1, BarTime(i - 1)), series, i + 1)

\* run steps 4 to 7
run_steps(w, series) ==
    close_remaining(RunBars(update_bias_sync(register_new_pois(w, BarTime(0)), BarTime(0)),
                            series, 1),
                    series[Len(series)], Len(series))

\* what the claimed determinism compares of a result
ResultOf(w) ==
    [n_trades |-> Len(w.pf.trades), equity_curve |-> w.pf.equity_curve,
     n_signals |-> Len(w.signals)]

\* run() is called again on the same object with the same series
RunAgain ==
    /\ pc = "done"
    /\ SetWorld(run_steps(restart_components(World, NBars), obs.series))
    /\ obs' = [obs EXCEPT !.first = <<ResultOf(World)>>]
    /\ pc' = "again"
    /\ UNCHANGED <<cfg, t0, mtf, bar_idx, candle, calls>>

NextTwice == RegisterInitial \/ ProcessBar \/ CloseRemaining \/ Return \/ RunAgain

SpecTwice == Init /\ [][NextTwice]_vars

-----------------------------------------------------------------------------
(* Backtester.run from its first statement: the date filter and the         *)
(* manager's initialisation                                                 *)

\* the start_date / end_date windows tried, as minutes
WindowBounds == (FirstMinute - 1)..(FirstMinute + NBars)

\* a candle with its high below and its low above its open
CandleMalformed == Candle(10900, 10800, 10950, 10900)

\* an NBars-bar 1m series of well-formed candles at consecutive minutes
SeriesClean == [i \in 1..NBars |-> [time |-> BarTime(i - 1), candle |-> CandleQuiet]]
\* the series with the timestamp of its first row repeated in the second
SeriesDuplicate == [SeriesClean EXCEPT ![2].time = BarTime(0)]
\* the series with a malformed first candle
SeriesMalformed == [SeriesClean EXCEPT ![1].candle = CandleMalformed]

\* the df_1m arguments run() is called with
RunInputs == {SeriesClean, SeriesDuplicate, SeriesMalformed}

\* _filter_date_range: the rows of the series inside the window
filter_date_range(df_1m, config) ==
    SelectSeq(df_1m, LAMBDA row : /\ row.time >= config.backtest.start_date
                                  /\ row.time <= config.backtest.end_date)

\* the required positional parameters of concepts.registry.build_poi_registry
RegistryRequiredParams == <<"fvgs", "obs", "breakers", "liquidity", "session_levels">>

\* Python's binding of a call: every required parameter gets a positional
\* or a keyword argument
CallBinds(required, n_positional, keywords) ==
    \A i \in 1..Len(required) : i <= n_positional \/ required[i] \in keywords

\* MTFManager._compute_tf calls build_poi_registry(fvgs, liquidity,
\* session_levels, fvg_lifecycle=..., timeframe=tf)
compute_tf_binds ==
    CallBinds(RegistryRequiredParams, Len(<<"fvgs", "liquidity", "session_levels">>),
              {"fvg_lifecycle", "timeframe"})

\* MTFManager.initialize: the exception it ends with ("" when it returns)
initialize(config) ==
    IF config.timeframes = <<>> THEN ""
    ELSE IF ~compute_tf_binds THEN "TypeError"
    ELSE ""

InitRun ==
    /\ pc = "start"
    /\ \E sc \in Scenarios : \E a \in WindowBounds, b \in WindowBounds :
          InitComponents([sc EXCEPT !.cfg.backtest =
                             [start_date |-> a, end_date |-> b] @@ @], NBars)

\* run step 1: filter the date range; an empty series raises ValueError
RunFilterDateRange ==
    /\ pc = "start"
    /\ \E df_1m \in RunInputs :
       \E df \in {filter_date_range(df_1m, cfg)} :
          /\ obs' = [df |-> df, n_bars |-> Len(df),
                     error |-> IF Len(df) = 0 THEN "ValueError" ELSE ""]
          /\ pc' = IF Len(df) = 0 THEN "raised" ELSE "filtered"
    /\ UNCHANGED <<cfg, t0, mtf, bar_idx, candle, states, next_index, registered_keys,
                   htf_bias, ltf_bias, sync_mode, positions, cash, last_close,
                   equity_curve, trades, events, signals, calls>>

\* run step 2: MTFManager(config).initialize(df)
RunInitialize ==
    /\ pc = "filtered"
    /\ LET error == initialize(cfg)
       IN  /\ obs' = [obs EXCEPT !.error = error]
           /\ pc' = IF error = "" THEN "initialized" ELSE "raised"
    /\ UNCHANGED <<cfg, t0, mtf, bar_idx, candle, states, next_index, registered_keys,
                   htf_bias, ltf_bias, sync_mode, positions, cash, last_close,
                   equity_curve, trades, events, signals, calls>>

NextRun == RunFilterDateRange \/ RunInitialize

SpecRun == InitRun /\ [][NextRun]_vars

-----------------------------------------------------------------------------
(* The state machine manager driven through its API in any order            *)

SmCandles == {CandleTap, CandleQuiet}

InitSM ==
    /\ pc = "sm"
    /\ \E sc \in {x \in Scenarios : x.cfg \in {CfgDefault, CfgQuick}} :
          InitComponents(sc, NBars)

SmFrame == <<cfg, t0, mtf, registered_keys, htf_bias, ltf_bias, sync_mode, positions,
             cash, last_close, equity_curve, trades, events, signals, pc>>

SmRegisterPoi ==
    /\ calls < MaxApiCalls
    /\ Len(states) < 2
    /\ \E poi \in {mtf["5m"].pois[i] : i \in 1..Len(mtf["5m"].pois)} :
          /\ poi.direction = 1
          /\ states' = register_poi(states, next_index, [poi EXCEPT !.timeframe = "5m"])
    /\ next_index' = next_index + 1
    /\ calls' = calls + 1
    /\ UNCHANGED <<bar_idx, candle>>
    /\ UNCHANGED <<SmFrame, obs>>

SmUpdate ==
    /\ calls < MaxApiCalls
    /\ bar_idx < NBars
    /\ \E c \in SmCandles :
          /\ candle' = c
          /\ states' = update(states, c, bar_idx, ConceptData1m, cfg.strategy.confirmations)
    /\ obs' = [bar |-> bar_idx, before |-> states]
    /\ bar_idx' = bar_idx + 1
    /\ calls' = calls + 1
    /\ UNCHANGED next_index
    /\ UNCHANGED SmFrame

SmTransition ==
    /\ calls < MaxApiCalls
    /\ bar_idx < NBars
    /\ \E i \in 1..Len(states), c \in SmCandles :
          /\ candle' = c
          /\ states' = [states EXCEPT ![i] = transition(@, c, bar_idx, ConceptData1m,
                                                        cfg.strategy.confirmations)]
    /\ bar_idx' = bar_idx + 1
    /\ calls' = calls + 1
    /\ UNCHANGED next_index
    /\ UNCHANGED <<SmFrame, obs>>

SmSetPositioned ==
    /\ calls < MaxApiCalls
    /\ \E i \in 1..Len(states) :
          states' = set_positioned(states, states[i].poi_id, 10902, 10745, 12000)
    /\ calls' = calls + 1
    /\ UNCHANGED <<bar_idx, candle, next_index>>
    /\ UNCHANGED <<SmFrame, obs>>

SmSetManaging ==
    /\ calls < MaxApiCalls
    /\ \E i \in 1..Len(states) : states' = set_managing(states, states[i].poi_id)
    /\ calls' = calls + 1
    /\ UNCHANGED <<bar_idx, candle, next_index>>
    /\ UNCHANGED <<SmFrame, obs>>

SmInvalidatePoi ==
    /\ calls < MaxApiCalls
    /\ \E i \in 1..Len(states) : states' = invalidate_poi(states, states[i].poi_id)
    /\ calls' = calls + 1
    /\ UNCHANGED <<bar_idx, candle, next_index>>
    /\ UNCHANGED <<SmFrame, obs>>

SmClosePoi ==
    /\ calls < MaxApiCalls
    /\ \E i \in 1..Len(states) : states' = close_poi(states, states[i].poi_id)
    /\ calls' = calls + 1
    /\ UNCHANGED <<bar_idx, candle, next_index>>
    /\ UNCHANGED <<SmFrame, obs>>

NextSM == \/ SmRegisterPoi \/ SmUpdate \/ SmTransition \/ SmSetPositioned
          \/ SmSetManaging \/ SmInvalidatePoi \/ SmClosePoi

SpecSM == InitSM /\ [][NextSM]_vars

-----------------------------------------------------------------------------
(* State-machine ticks at any bar index, the same bar more than once        *)

\* min_count values the ticks are run with (max_count is the scenario's)
TickMinCounts == {5, 7}

InitTick ==
    /\ pc = "tick"
    /\ \E sc \in {x \in Scenarios : x.cfg \in {CfgDefault, CfgOneSlot}} :
       \E m \in TickMinCounts :
          InitComponents([sc EXCEPT !.cfg.strategy.confirmations.min_count = m], NBars)

TickFrame == <<cfg, t0, mtf, registered_keys, htf_bias, ltf_bias, sync_mode, positions,
               cash, last_close, equity_curve, trades, events, signals, pc>>

\* StateMachineManager.register_poi for a demand zone of the 5m registry
TickRegisterPoi ==
    /\ calls < MaxApiCalls
    /\ states = <<>>
    /\ \E poi \in {mtf["5m"].pois[i] : i \in 1..Len(mtf["5m"].pois)} :
          /\ poi.direction = 1
          /\ states' = register_poi(states, next_index, [poi EXCEPT !.timeframe = "5m"])
    /\ next_index' = next_index + 1
    /\ calls' = calls + 1
    /\ UNCHANGED <<bar_idx, candle, obs>>
    /\ UNCHANGED TickFrame

\* StateMachineManager.update for bar b; obs keeps the states the tick started
\* from
TickUpdate ==
    /\ calls < MaxApiCalls
    /\ states # <<>>
    /\ \E c \in SmCandles, b \in 0..(NBars - 1) :
          /\ candle' = c
          /\ bar_idx' = b
          /\ states' = update(states, c, b, ConceptData1m, cfg.strategy.confirmations)
          /\ obs' = [bar |-> b, before |-> states]
    /\ calls' = calls + 1
    /\ UNCHANGED next_index
    /\ UNCHANGED TickFrame

NextTick == TickRegisterPoi \/ TickUpdate

SpecTick == InitTick /\ [][NextTick]_vars

-----------------------------------------------------------------------------
(* The portfolio driven through its API in any order                        *)

PfCandles == {CandleUp}

\* entry and add-on signals for two POIs
PfSignals ==
    {MkSignal(type, poi_id, 1, 10900, 10745, 12000, PctOf(1, 1), "", 0) :
        type \in {"ENTER", "ADD_ON"}, poi_id \in 0..1}

PortfolioValue ==
    [positions |-> positions, cash |-> cash, last_close |-> last_close,
     equity_curve |-> equity_curve, trades |-> trades, events |-> events]

SetPortfolio(pf) ==
    /\ positions' = pf.positions
    /\ cash' = pf.cash
    /\ last_close' = pf.last_close
    /\ equity_curve' = pf.equity_curve
    /\ trades' = pf.trades
    /\ events' = pf.events

InitPF ==
    /\ pc = "pf"
    /\ \E sc \in {x \in Scenarios : x.cfg \in {CfgOneSlot, CfgShort}} :
          InitComponents(sc, NBars)

PfFrame == <<cfg, t0, mtf, states, next_index, registered_keys, htf_bias, ltf_bias,
             sync_mode, signals, pc>>

\* the call just made: its name and, for open_position, its arguments and
\* its return value
PfCall(op, sig, mode, trade_id) ==
    [op |-> op, signal |-> sig, mode |-> mode, trade_id |-> trade_id]

PfOpenPosition ==
    /\ calls < MaxApiCalls
    /\ \E sig \in PfSignals, mode \in {"SYNC", "UNDEFINED"} :
       \E res \in {open_position(PortfolioValue, sig, BarTime(bar_idx), mode, bar_idx,
                                  sig.type = "ADD_ON", NoValue, PortfolioConfig)} :
          /\ SetPortfolio(res.pf)
          /\ obs' = PfCall("open_position", <<sig>>, mode, res.trade_id)
    /\ calls' = calls + 1
    /\ UNCHANGED <<bar_idx, candle>>
    /\ UNCHANGED PfFrame

PfClosePosition ==
    /\ calls < MaxApiCalls
    /\ \E poi_id \in 0..1 :
          SetPortfolio(close_position(PortfolioValue, poi_id, 12000, "TARGET_HIT",
                                      BarTime(bar_idx), bar_idx, NoValue, PortfolioConfig))
    /\ obs' = PfCall("close_position", <<>>, "", NoValue)
    /\ calls' = calls + 1
    /\ UNCHANGED <<bar_idx, candle>>
    /\ UNCHANGED PfFrame

PfModifyStopLoss ==
    /\ calls < MaxApiCalls
    /\ \E poi_id \in 0..1 :
          SetPortfolio(modify_stop_loss(PortfolioValue, poi_id, 10915))
    /\ obs' = PfCall("modify_stop_loss", <<>>, "", NoValue)
    /\ calls' = calls + 1
    /\ UNCHANGED <<bar_idx, candle>>
    /\ UNCHANGED PfFrame

PfMarkToMarket ==
    /\ calls < MaxApiCalls
    /\ bar_idx < NBars
    /\ \E c \in PfCandles :
          /\ candle' = c
          /\ SetPortfolio(update_mark_to_market(PortfolioValue, bar_idx, c.high, c.low,
                                                c.close))
    /\ obs' = PfCall("update_mark_to_market", <<>>, "", NoValue)
    /\ bar_idx' = bar_idx + 1
    /\ calls' = calls + 1
    /\ UNCHANGED PfFrame

NextPF == PfOpenPosition \/ PfClosePosition \/ PfModifyStopLoss \/ PfMarkToMarket

SpecPF == InitPF /\ [][NextPF]_vars

-----------------------------------------------------------------------------
(* Round trips through the portfolio: one position at a time is opened,     *)
(* long or short, and closed at a signal price                              *)

RtPrices == {10900, 11000}

\* an ENTER signal at price with its stop 1.55 behind and its target 10.00 ahead
RtSignal(direction, price) ==
    MkSignal("ENTER", 0, direction, price, price - direction * 155,
             price + direction * 1000, PctOf(1, 1), "round trip", bar_idx)

InitRT ==
    /\ pc = "rt"
    /\ \E sc \in {x \in Scenarios : x.cfg \in {CfgDefault, CfgShort}} :
          InitComponents(sc, NBars)

RtOpen ==
    /\ calls < MaxApiCalls
    /\ positions = <<>>
    /\ \E direction \in {1, -1}, price \in RtPrices, mode \in {"SYNC", "DESYNC"} :
       \E res \in {open_position(PortfolioValue, RtSignal(direction, price),
                                  BarTime(bar_idx), mode, bar_idx, FALSE, NoValue,
                                  PortfolioConfig)} :
          /\ SetPortfolio(res.pf)
          /\ obs' = PfCall("open_position", <<RtSignal(direction, price)>>, mode,
                           res.trade_id)
    /\ calls' = calls + 1
    /\ UNCHANGED <<bar_idx, candle>>
    /\ UNCHANGED PfFrame

RtClose ==
    /\ calls < MaxApiCalls
    /\ positions # <<>>
    /\ \E price \in RtPrices :
          SetPortfolio(close_position(PortfolioValue, 0, price, "END_OF_DATA",
                                      BarTime(bar_idx), bar_idx, NoValue, PortfolioConfig))
    /\ obs' = PfCall("close_position", <<>>, "", NoValue)
    /\ calls' = calls + 1
    /\ UNCHANGED <<bar_idx, candle>>
    /\ UNCHANGED PfFrame

NextRT == RtOpen \/ RtClose

SpecRT == InitRT /\ [][NextRT]_vars

-----------------------------------------------------------------------------
(* evaluate_entry on its own: a READY POI with a given confirmation list,   *)
(* no FTA, every candle, both entry modes, rto_wait on and off              *)

Confirm(ctype, bar_index) == [type |-> ctype, bar_index |-> bar_index, formed_at |-> 0]

\* five confirmations, none FVG-related, the last one structural
ConfirmsTrap ==
    <<Confirm("POI_TAP", 0), Confirm("LIQUIDITY_SWEEP", 0), Confirm("STRUCTURE_BREAK", 0),
      Confirm("POI_TAP", 1), Confirm("ADDITIONAL_CBOS", 1)>>

EntryConfirmLists ==
    { ConfirmsTrap,
      \* the same with an inversion test among them
      [ConfirmsTrap EXCEPT ![2] = Confirm("INVERSION_TEST", 0)],
      \* the same ending in a tap
      [ConfirmsTrap EXCEPT ![4] = Confirm("STRUCTURE_BREAK", 1), ![5] = Confirm("POI_TAP", 2)],
      \* four confirmations
      SubSeq(ConfirmsTrap, 1, 3) \o <<Confirm("STRUCTURE_BREAK", 1)>> }

InitEntry ==
    /\ pc = "entry"
    /\ \E sc \in {x \in Scenarios : x.cfg \in {CfgDefault, CfgShort}} :
       \E mode \in {"conservative", "aggressive"}, rto_wait \in BOOLEAN :
          InitComponents([sc EXCEPT !.cfg.strategy.entry =
                                       [mode |-> mode, rto_wait |-> rto_wait]], NBars)

EntryFrame == <<cfg, t0, mtf, bar_idx, next_index, registered_keys, htf_bias, ltf_bias,
                positions, cash, last_close, equity_curve, trades, events, obs, pc>>

\* evaluate_entry for a READY state of a 5m POI; signals holds what it returned
EntryEvaluate ==
    /\ calls < MaxApiCalls
    /\ \E k \in 1..Len(mtf["5m"].pois), confs \in EntryConfirmLists, c \in CandleSet,
          mode \in {"SYNC", "DESYNC"} :
       \E st \in {[NewPOIState(0, [mtf["5m"].pois[k] EXCEPT !.timeframe = "5m"])
                      EXCEPT !.phase = "READY", !.confirmations = confs]} :
          /\ states' = <<st>>
          /\ candle' = c
          /\ sync_mode' = mode
          /\ signals' = evaluate_entry(st, c, bar_idx, <<>>, "none", mode, mtf["1m"].fvgs,
                                       mtf["1m"].liquidity, cfg.strategy)
    /\ calls' = calls + 1
    /\ UNCHANGED EntryFrame

NextEntry == EntryEvaluate

SpecEntry == InitEntry /\ [][NextEntry]_vars

-----------------------------------------------------------------------------
(* _handle_addons on its own: one POI entered as _handle_entries enters it, *)
(* then the add-on step of successive bars with any candle                  *)

\* a demand zone of the add-on timeframe between the entry price and the target
PoiAbove == Poi(1, 11700, 11500, 2, NoValue)

AddonScenarios ==
    {[sc EXCEPT !.tables["15m"].pois = @ \o <<PoiAbove>>] :
        sc \in {x \in Scenarios : x.cfg = CfgDefault}}
    \cup {x \in Scenarios : x.cfg = CfgShort}

\* an ENTER signal for a POI: entry at 110.00 (long) or 130.00 (short), the
\* stop 2.55 behind and the target 10.00 ahead
AddonEntrySignal(poi_id, direction) ==
    MkSignal("ENTER", poi_id, direction, IF direction = 1 THEN 11000 ELSE 13000,
             (IF direction = 1 THEN 11000 ELSE 13000) - direction * 255,
             (IF direction = 1 THEN 11000 ELSE 13000) + direction * 1000,
             PctOf(1, 1), "entry", bar_idx)

InitAddon ==
    /\ pc = "addon"
    /\ \E sc \in AddonScenarios : InitComponents(sc, NBars)

AddonFrame == <<cfg, t0, mtf, registered_keys, htf_bias, ltf_bias, equity_curve, pc>>

\* register_poi, open_position and set_positioned for a 5m POI, as in
\* _handle_entries
AddonEnter ==
    /\ calls < MaxApiCalls
    /\ states = <<>>
    /\ \E k \in 1..Len(mtf["5m"].pois), mode \in {"SYNC", "DESYNC"} :
       \E poi \in {[mtf["5m"].pois[k] EXCEPT !.timeframe = "5m"]} :
       \E res \in {open_position(PortfolioValue, AddonEntrySignal(next_index, poi.direction),
                                  BarTime(bar_idx), mode, bar_idx, FALSE, NoValue,
                                  PortfolioConfig)} :
          /\ res.trade_id # NoValue
          /\ states' = set_positioned(register_poi(states, next_index, poi), next_index,
                                      res.pf.trades[res.trade_id + 1].entry_price,
                                      AddonEntrySignal(next_index, poi.direction).stop_loss,
                                      AddonEntrySignal(next_index, poi.direction).target)
          /\ signals' = Append(signals, AddonEntrySignal(next_index, poi.direction))
          /\ sync_mode' = mode
          /\ positions' = res.pf.positions
          /\ cash' = res.pf.cash
          /\ last_close' = res.pf.last_close
          /\ trades' = res.pf.trades
          /\ events' = res.pf.events
    /\ next_index' = next_index + 1
    /\ calls' = calls + 1
    /\ UNCHANGED <<bar_idx, candle, obs>>
    /\ UNCHANGED AddonFrame

\* _handle_addons for the next bar; obs.series keeps the candles
AddonHandle ==
    /\ calls < MaxApiCalls
    /\ states # <<>>
    /\ bar_idx < NBars
    /\ \E c \in CandleSet :
       \E w \in {handle_addons(World, c, bar_idx, BarTime(bar_idx))} :
          /\ candle' = c
          /\ states' = w.states
          /\ signals' = w.signals
          /\ positions' = w.pf.positions
          /\ cash' = w.pf.cash
          /\ last_close' = w.pf.last_close
          /\ trades' = w.pf.trades
          /\ events' = w.pf.events
          /\ obs' = [obs EXCEPT !.series = Append(@, c)]
    /\ bar_idx' = bar_idx + 1
    /\ calls' = calls + 1
    /\ UNCHANGED <<next_index, sync_mode>>
    /\ UNCHANGED AddonFrame

NextAddon == AddonEnter \/ AddonHandle

SpecAddon == InitAddon /\ [][NextAddon]_vars

-----------------------------------------------------------------------------
(* _handle_exits on its own: one POI entered as _handle_entries enters it,  *)
(* then the exit step of successive bars with any candle, under the default *)
(* commission rate and under a configured one                               *)

\* backtest.commission_pct of the runs: the default 0.06% and 0.1%
ExitCommissions == {PctOf(6, 10000), PctOf(10, 10000)}

InitExit ==
    /\ pc = "exit"
    /\ \E sc \in {x \in Scenarios : x.cfg \in {CfgDefault, CfgShort}} :
       \E cm \in ExitCommissions :
          InitComponents([sc EXCEPT !.cfg.backtest.commission_pct = cm], NBars)

\* _handle_exits for the next bar; obs.before keeps the states it started from
ExitHandle ==
    /\ calls < MaxApiCalls
    /\ states # <<>>
    /\ bar_idx < NBars
    /\ \E c \in CandleSet :
       \E w \in {handle_exits(World, c, bar_idx, BarTime(bar_idx))} :
          /\ candle' = c
          /\ states' = w.states
          /\ signals' = w.signals
          /\ positions' = w.pf.positions
          /\ cash' = w.pf.cash
          /\ last_close' = w.pf.last_close
          /\ trades' = w.pf.trades
          /\ events' = w.pf.events
    /\ obs' = [bar |-> bar_idx, before |-> states]
    /\ bar_idx' = bar_idx + 1
    /\ calls' = calls + 1
    /\ UNCHANGED <<next_index, sync_mode>>
    /\ UNCHANGED AddonFrame

NextExit == AddonEnter \/ ExitHandle

SpecExit == InitExit /\ [][NextExit]_vars

-----------------------------------------------------------------------------
(* _update_bias_sync on its own, at any bar time, for several configured    *)
(* timeframe lists                                                          *)

\* data.timeframes of the runs: the config.py default, the four-timeframe
\* list, a list without 5m and 1H, a list without 1H
BiasTimeframes ==
    { <<"1m", "5m", "15m", "30m", "1H", "4H", "1D">>,
      <<"1m", "5m", "15m", "1H">>,
      <<"1m", "15m", "4H">>,
      <<"1m", "5m", "4H">> }

\* structure tables that tell the timeframes apart: 5m and 1H break one way,
\* 15m and 4H the other way, 30m and 1D have no break
BiasTables(tfs, bull_first) ==
    [tf \in {tfs[i] : i \in 1..Len(tfs)} |->
        IF tf = "1m" THEN OneMinSparse
        ELSE IF tf \in {"5m", "1H"}
        THEN [NoTables EXCEPT !.structure = IF bull_first THEN BullBias ELSE BearBias]
        ELSE IF tf \in {"15m", "4H"}
        THEN [NoTables EXCEPT !.structure = IF bull_first THEN BearBias ELSE BullBias]
        ELSE NoTables]

InitBias ==
    /\ pc = "bias"
    /\ \E tfs \in BiasTimeframes, bull_first \in BOOLEAN :
          InitComponents([cfg |-> [CfgDefault EXCEPT !.timeframes = tfs],
                          tables |-> BiasTables(tfs, bull_first)], NBars)

BiasFrame == <<cfg, t0, mtf, bar_idx, candle, states, next_index, registered_keys,
               positions, cash, last_close, equity_curve, trades, signals, pc>>

\* _update_bias_sync at a bar time; obs keeps the time
BiasUpdate ==
    /\ calls < MaxApiCalls
    /\ \E b \in 0..(NBars - 1) :
       \E w \in {update_bias_sync(World, BarTime(b))} :
          /\ htf_bias' = w.htf_bias
          /\ ltf_bias' = w.ltf_bias
          /\ sync_mode' = w.sync_mode
          /\ events' = w.pf.events
          /\ obs' = [timestamp |-> BarTime(b)]
    /\ calls' = calls + 1
    /\ UNCHANGED BiasFrame

NextBias == BiasUpdate

SpecBias == InitBias /\ [][NextBias]_vars

-----------------------------------------------------------------------------
(* The manager's time-gated queries, asked for any timeframe and time       *)

QueryTimes == (FirstMinute - 1)..(FirstMinute + NBars)

InitMTF ==
    /\ pc = "mtf"
    /\ \E sc \in Scenarios : InitComponents(sc, NBars)

MtfFrame == <<cfg, t0, mtf, bar_idx, candle, states, next_index, registered_keys,
              htf_bias, ltf_bias, sync_mode, positions, cash, last_close, equity_curve,
              trades, events, signals, calls, pc>>

QueryPoisAt ==
    /\ \E tf \in DOMAIN mtf, ts \in QueryTimes :
          obs' = [query |-> "pois", tf |-> tf, timestamp |-> ts,
                  result |-> get_pois_at(tf, ts)]
    /\ UNCHANGED MtfFrame

QueryStructureAt ==
    /\ \E tf \in DOMAIN mtf, ts \in QueryTimes :
          obs' = [query |-> "structure", tf |-> tf, timestamp |-> ts,
                  result |-> get_structure_at(tf, ts)]
    /\ UNCHANGED MtfFrame

QueryFvgsAt ==
    /\ \E tf \in DOMAIN mtf, ts \in QueryTimes :
          obs' = [query |-> "fvgs", tf |-> tf, timestamp |-> ts,
                  result |-> get_fvgs_at(tf, ts)]
    /\ UNCHANGED MtfFrame

NextMTF == QueryPoisAt \/ QueryStructureAt \/ QueryFvgsAt

SpecMTF == InitMTF /\ [][NextMTF]_vars

-----------------------------------------------------------------------------
(* Properties                                                               *)

\* the edges of the phase graph
PhaseEdges ==
    {<<"IDLE", "POI_TAPPED">>, <<"POI_TAPPED", "COLLECTING">>, <<"COLLECTING", "READY">>,
     <<"READY", "POSITIONED">>, <<"POSITIONED", "MANAGING">>, <<"MANAGING", "CLOSED">>,
     <<"POSITIONED", "CLOSED">>, <<"IDLE", "CLOSED">>}

\* C1: during a backtest run the phases a registered POI goes through, in the
\* order they are assigned, start at IDLE and follow the edges of the phase
\* graph: no step back, no jump from a pre-READY phase to POSITIONED, no step
\* out of CLOSED.
C1_PhasePathInGraph ==
    \A i \in 1..Len(states) :
        /\ states[i].path[1] = "IDLE"
        /\ states[i].path[Len(states[i].path)] = states[i].phase
        /\ \A k \in 1..(Len(states[i].path) - 1) :
              <<states[i].path[k], states[i].path[k + 1]>> \in PhaseEdges

\* a POI that went through the whole graph, IDLE to CLOSED via MANAGING
C1_Witness ==
    \E i \in 1..Len(states) :
        states[i].path = <<"IDLE", "POI_TAPPED", "COLLECTING", "READY", "POSITIONED",
                           "MANAGING", "CLOSED">>

\* C2: once a POI is CLOSED no state-machine operation changes its phase: in
\* the history of a POI's phase assignments CLOSED is only followed by CLOSED.
C2_ClosedIsTerminal ==
    \A i \in 1..Len(states) :
        \A k \in 1..(Len(states[i].path) - 1) :
            states[i].path[k] = "CLOSED" => states[i].path[k + 1] = "CLOSED"

\* C3: the number of distinct poi-ids with an open position never exceeds
\* max_concurrent_positions, whatever open_position (entries and add-ons),
\* close_position and mark-to-market calls were made.
C3_OpenPoisWithinMax ==
    Cardinality({positions[i].poi_id : i \in 1..Len(positions)})
        <= cfg.strategy.risk.max_concurrent_positions

RECURSIVE OpenPnl(_, _)
OpenPnl(k, close) ==
    IF k = 0 THEN 0
    ELSE positions[k].direction * (close - positions[k].entry_price)
            * positions[k].position_size
         + OpenPnl(k - 1, close)

\* C4: after bar i is processed, equity_curve[i] holds the cash left by bar i's
\* exits and entries plus, over the positions open at the end of the bar,
\* direction x (close_i - entry fill) x size.
C4_EquityIsCashPlusOpenPnl ==
    (pc = "loop" /\ bar_idx >= 1) =>
        equity_curve[bar_idx] = <<cash + OpenPnl(Len(positions), candle.close)>>

\* a bar ended with an open position whose fill is not the bar's close
C4_Witness ==
    /\ pc = "loop" /\ bar_idx >= 1
    /\ \E k \in 1..Len(positions) : positions[k].entry_price # candle.close
    /\ equity_curve[bar_idx] # <<cash>>

\* C5: the bar loop never looks ahead: a confirmation counted while bar i was
\* processed rests on an artifact that existed at bar i (formed_at <= i).
C5_NoLookAhead ==
    \A i \in 1..Len(states) :
        \A k \in 1..Len(states[i].confirmations) :
            states[i].confirmations[k].formed_at <= states[i].confirmations[k].bar_index

\* C6: a time-gated query for timeframe tf and time T returns only artifacts
\* whose creation bar (POI creation time, structure break bar, FVG third-candle
\* bar) has a time at or before T.
C6_QueriesAreTimeGated ==
    (pc = "mtf" /\ "query" \in DOMAIN obs) =>
        \A k \in 1..Len(obs.result) :
            LET created ==
                    CASE obs.query = "pois" -> obs.result[k].creation_time
                      [] obs.query = "structure" -> TfTimeOf(obs.tf, obs.result[k].broken_index)
                      [] obs.query = "fvgs" -> TfTimeOf(obs.tf, obs.result[k].creation_index)
            IN  created # NoValue /\ created <= obs.timestamp

\* an FVG query that returned some of the table's rows and held others back
C6_Witness ==
    /\ pc = "mtf" /\ "query" \in DOMAIN obs
    /\ obs.query = "fvgs"
    /\ obs.result # <<>>
    /\ Len(obs.result) < Len(mtf[obs.tf].fvgs)

\* the EXIT signals of POI poi_id at bar b
ExitSignalsAt(poi_id, b) ==
    {k \in 1..Len(signals) : /\ signals[k].type = "EXIT"
                             /\ signals[k].poi_id = poi_id
                             /\ signals[k].bar_index = b}

BreachesBoth(c, st) ==
    IF st.poi_data.direction = 1
    THEN c.low <= st.stop_loss /\ c.high >= st.target
    ELSE c.high >= st.stop_loss /\ c.low <= st.target

\* C7: a POI gets at most one EXIT signal per bar, and when the bar's range
\* breaches both its stop and its target the exit is a STOP_LOSS_HIT at the
\* stop price, in the signal and in the trade records.
C7_OneExitStopFirst ==
    \A i \in 1..Len(states) :
        /\ \A b \in 0..(NBars - 1) : Cardinality(ExitSignalsAt(states[i].poi_id, b)) <= 1
        /\ (pc = "loop" /\ bar_idx >= 1 /\ BreachesBoth(candle, states[i])) =>
              /\ \A k \in ExitSignalsAt(states[i].poi_id, bar_idx - 1) :
                    /\ signals[k].reason = "STOP_LOSS_HIT"
                    /\ signals[k].price = states[i].stop_loss
              /\ \A t \in 1..Len(trades) :
                    (/\ trades[t].poi_id = states[i].poi_id
                     /\ trades[t].exit_time = BarTime(bar_idx - 1)) =>
                        /\ trades[t].exit_reason = "STOP_LOSS_HIT"
                        /\ trades[t].exit_signal_price = states[i].stop_loss

\* a bar breached the stop and the target of a positioned POI, which exited
C7_Witness ==
    /\ pc = "loop" /\ bar_idx >= 1
    /\ \E i \in 1..Len(states) :
          /\ states[i].stop_loss # NoValue
          /\ BreachesBoth(candle, states[i])
          /\ ExitSignalsAt(states[i].poi_id, bar_idx - 1) # {}

\* C8: within a bar every exit comes before every entry, and when the
\* portfolio was full at the start of the bar and a position exited on it, the
\* first READY POI whose entry conditions hold on the bar holds a position
\* entered on that bar.
C8_ExitsFreeSlotsForEntries ==
    /\ \A i \in 1..Len(events), j \in 1..Len(events) :
          (/\ i < j
           /\ events[i].timestamp = events[j].timestamp
           /\ events[i].type = "ENTRY"
           /\ events[j].type = "EXIT") => events[j].reason = "END_OF_DATA"
    /\ (/\ pc = "loop" /\ bar_idx >= 1
        /\ obs.full_at_start /\ obs.exited /\ obs.candidate # NoValue) =>
          /\ StateOf(states, obs.candidate).phase = "POSITIONED"
          /\ \E k \in 1..Len(positions) :
                /\ positions[k].poi_id = obs.candidate
                /\ positions[k].entry_bar_index = bar_idx - 1
                /\ ~positions[k].is_addon

\* a full portfolio, an exit and a same-bar entry of a waiting READY POI
C8_Witness ==
    /\ pc = "loop" /\ bar_idx >= 1
    /\ obs.full_at_start /\ obs.exited /\ obs.candidate # NoValue
    /\ \E k \in 1..Len(positions) : positions[k].entry_bar_index = bar_idx - 1

C10_RunCompletes ==
    /\ pc = "raised" => obs.n_bars = 0
    /\ pc = "done" => /\ Len(equity_curve) = NBars
                      /\ \A i \in 1..NBars : equity_curve[i] # <<>>

\* the confirmations of state i that the last tick added
AddedByTick(i) ==
    {k \in 1..Len(states[i].confirmations) : k > Len(obs.before[i].confirmations)}

\* C11: whatever ticks were run, the same bar index more than once included,
\* no confirmation list holds two entries with the same (type, bar_index).
C11_NoDuplicateTypeAndBar ==
    \A i \in 1..Len(states) :
        \A k \in 1..Len(states[i].confirmations), l \in 1..Len(states[i].confirmations) :
            (/\ states[i].confirmations[k].type = states[i].confirmations[l].type
             /\ states[i].confirmations[k].bar_index = states[i].confirmations[l].bar_index)
                => k = l

\* a tick on a bar that already had confirmations added more to the list
C11_Witness ==
    /\ pc = "tick" /\ "before" \in DOMAIN obs
    /\ \E i \in 1..Len(states) :
          /\ \E k \in 1..Len(obs.before[i].confirmations) :
                obs.before[i].confirmations[k].bar_index = obs.bar
          /\ AddedByTick(i) # {}

\* C12: a tick appends FVG_WICK_REACTION only when the list held at least 5
\* entries before the tick; what the tick itself added does not count.
C12_WickNeedsFivePrior ==
    (pc = "tick" /\ "before" \in DOMAIN obs) =>
        \A i \in 1..Len(states) :
            (\E k \in AddedByTick(i) :
                states[i].confirmations[k].type = "FVG_WICK_REACTION")
                => Len(obs.before[i].confirmations) >= 5

\* a tick appended FVG_WICK_REACTION
C12_Witness ==
    /\ pc = "tick" /\ "before" \in DOMAIN obs
    /\ \E i \in 1..Len(states) : \E k \in AddedByTick(i) :
          states[i].confirmations[k].type = "FVG_WICK_REACTION"

\* C13: a confirmation list never holds more than max_count entries.
C13_AtMostMaxCount ==
    \A i \in 1..Len(states) :
        Len(states[i].confirmations) <= cfg.strategy.confirmations.max_count

\* a tick reached the cap part-way: the CVB test of the bar hit and was not
\* appended
C13_Witness ==
    /\ pc = "tick" /\ "before" \in DOMAIN obs
    /\ \E i \in 1..Len(states) :
          /\ Len(obs.before[i].confirmations) < cfg.strategy.confirmations.max_count
          /\ Len(states[i].confirmations) = cfg.strategy.confirmations.max_count
          /\ check_cvb_test(candle, mtf["1m"].fvgs, states[i].poi_data.direction).hit
          /\ ~\E k \in 1..Len(states[i].confirmations) :
                /\ states[i].confirmations[k].type = "CVB_TEST"
                /\ states[i].confirmations[k].bar_index = obs.bar

\* C14: from one step of the run to the next, mark-to-market calls included,
\* the MFE and the MAE of every trade of the log never decrease.
C14_ExcursionsNeverDecrease ==
    [][\A t \in 1..Len(trades) :
          /\ trades'[t].max_favorable_excursion >= trades[t].max_favorable_excursion
          /\ trades'[t].max_adverse_excursion >= trades[t].max_adverse_excursion]_vars

\* a position marked to market on a bar after its entry bar, on a bar whose
\* own excursions are below the recorded maxima
C14_Witness ==
    /\ pc = "loop" /\ bar_idx >= 2
    /\ \E k \in 1..Len(positions) :
          LET t == trades[positions[k].trade_id + 1]
          IN  /\ positions[k].entry_bar_index < bar_idx - 1
              /\ t.max_favorable_excursion > positions[k].direction * (candle.high - t.entry_price)
              /\ t.max_favorable_excursion > positions[k].direction * (candle.low - t.entry_price)
              /\ t.max_adverse_excursion > positions[k].direction * (t.entry_price - candle.low)
              /\ t.max_adverse_excursion > positions[k].direction * (t.entry_price - candle.high)

\* C15: a closed trade whose outcome is WIN has a strictly positive recorded
\* R-multiple, and one whose outcome is LOSS a strictly negative one.
C15_RSignMatchesOutcome ==
    \A t \in 1..Len(trades) :
        /\ trades[t].outcome = "WIN" => trades[t].r_multiple.num > 0
        /\ trades[t].outcome = "LOSS" => trades[t].r_multiple.num < 0

EventsAt(type, reason, timestamp) ==
    {k \in 1..Len(events) : /\ events[k].type = type
                            /\ events[k].reason = reason
                            /\ events[k].timestamp = timestamp}

\* the bar of obs had, when its entries were handled, two free slots of two
\* and exactly three READY POIs, each of which the portfolio would enter
ThreeReadyForTwoSlots ==
    /\ obs.bar # NoValue
    /\ cfg.strategy.risk.max_concurrent_positions = 2
    /\ obs.open_at_entries = 0
    /\ Len(obs.ready) = 3
    /\ obs.entrants = obs.ready

UndefinedOpenCall ==
    /\ calls' = calls + 1
    /\ obs'.op = "open_position"
    /\ obs'.mode = "UNDEFINED"

\* the step leaves cash, positions and the trade log alone, returns no trade
\* and appends one POSITION_REJECTED event with the given reason
RejectedWith(reason) ==
    /\ obs'.trade_id = NoValue
    /\ cash' = cash /\ positions' = positions /\ trades' = trades
    /\ Len(events') = Len(events) + 1
    /\ SubSeq(events', 1, Len(events)) = events
    /\ events'[Len(events')].type = "POSITION_REJECTED"
    /\ events'[Len(events')].reason = reason

\* the call is an ENTER of a poi-id without a position into a full portfolio
CapComesFirst ==
    /\ obs'.signal[1].type = "ENTER"
    /\ obs'.signal[1].poi_id \notin OpenPoiIds(positions)
    /\ Cardinality(OpenPoiIds(positions)) >= cfg.strategy.risk.max_concurrent_positions

\* C17: in the UNDEFINED sync mode open_position accepts no ENTER and no
\* ADD_ON: it returns no trade, leaves cash, open positions and the trade
\* log unchanged and emits one POSITION_REJECTED event, with reason
\* "zero_position_size" unless the call is an ENTER of a new poi-id into a
\* full portfolio, which is rejected with "max_positions_reached".
C17_UndefinedRejects ==
    [][UndefinedOpenCall =>
          IF CapComesFirst THEN RejectedWith("max_positions_reached")
          ELSE RejectedWith("zero_position_size")]_vars

\* C17 as stated: every rejection in the UNDEFINED mode carries the reason
\* "zero_position_size".
C17_AlwaysZeroSizeReason ==
    [][UndefinedOpenCall => RejectedWith("zero_position_size")]_vars

\* an UNDEFINED call was turned away for its size while a position was open
C17_Witness ==
    /\ calls > 0
    /\ obs.op = "open_position" /\ obs.mode = "UNDEFINED" /\ obs.trade_id = NoValue
    /\ positions # <<>>
    /\ events # <<>>
    /\ events[Len(events)].type = "POSITION_REJECTED"
    /\ events[Len(events)].reason = "zero_position_size"

\* C18: every trade opened by an ENTER has, for its recorded entry signal
\* price, stop and target, risk > 0 and reward >= 2.0 * risk.
C18_EnteredTradesMeetMinRR ==
    \A t \in 1..Len(trades) :
        ~trades[t].is_addon =>
            LET risk == trades[t].direction * (trades[t].entry_signal_price - trades[t].stop_loss)
                reward == trades[t].direction * (trades[t].target - trades[t].entry_signal_price)
            IN  risk > 0 /\ reward >= MinRR * risk

\* C19: with close_threshold_pct configured as 0, no READY POI's entry is
\* blocked by a close FTA on any bar of the run.
C19_ZeroThresholdNeverBlocks ==
    cfg.strategy.fta.close_threshold_pct.num = 0 => obs.fta_blocked = <<>>

\* the step is a SYNC call of open_position with an ADD_ON for a poi-id that
\* has an open position, made while the distinct open poi-ids are at the cap
AddonCallAtCap ==
    /\ calls' = calls + 1
    /\ obs'.op = "open_position"
    /\ obs'.mode = "SYNC"
    /\ obs'.signal[1].type = "ADD_ON"
    /\ obs'.signal[1].poi_id \in OpenPoiIds(positions)
    /\ Cardinality(OpenPoiIds(positions)) = cfg.strategy.risk.max_concurrent_positions

\* C20: an add-on (at a tradable size: SYNC) for a poi-id that already has an
\* open position is accepted when the number of distinct open poi-ids equals
\* max_concurrent_positions, and the distinct open poi-ids stay the same.
C20_AddonBypassesCap ==
    [][AddonCallAtCap =>
          /\ obs'.trade_id # NoValue
          /\ Len(positions') = Len(positions) + 1
          /\ positions'[Len(positions')].trade_id = obs'.trade_id
          /\ positions'[Len(positions')].poi_id = obs'.signal[1].poi_id
          /\ OpenPoiIds(positions') = OpenPoiIds(positions)]_vars

\* an add-on was just accepted next to the entry of its poi-id, with the
\* distinct open poi-ids at the cap
C20_Witness ==
    /\ calls > 0
    /\ obs.op = "open_position" /\ obs.trade_id # NoValue
    /\ obs.signal[1].type = "ADD_ON"
    /\ Cardinality(OpenPoiIds(positions)) = cfg.strategy.risk.max_concurrent_positions
    /\ \E i, j \in 1..Len(positions) :
          /\ i < j
          /\ positions[i].poi_id = obs.signal[1].poi_id /\ ~positions[i].is_addon
          /\ positions[j].trade_id = obs.trade_id /\ positions[j].is_addon

\* trade t of the log is closed and its exit signal price is its entry
\* signal price
ZeroMoveRoundTrip(t) ==
    /\ trades[t].exit_price # NoValue
    /\ trades[t].exit_signal_price = trades[t].entry_signal_price

\* C21: a round trip with equal entry and exit signal prices ends, long or
\* short, with a loss of the entry commission plus the exit commission plus
\* 2 x signal price x slippage_pct x size.
C21_ZeroMoveRoundTripLoss ==
    \A t \in 1..Len(trades) :
        ZeroMoveRoundTrip(t) =>
            /\ trades[t].realized_pnl < 0
            /\ 0 - trades[t].realized_pnl =
                  trades[t].commission_entry + trades[t].commission_exit
                  + 2 * Pct(trades[t].entry_signal_price, cfg.backtest.slippage_pct)
                      * trades[t].position_size

\* the log holds a long and a short zero-move round trip
C21_Witness ==
    /\ \E t \in 1..Len(trades) : ZeroMoveRoundTrip(t) /\ trades[t].direction = 1
    /\ \E t \in 1..Len(trades) : ZeroMoveRoundTrip(t) /\ trades[t].direction = -1

\* C22: a second run over the same series and configuration, on the same
\* Backtester, ends with the same number of trades, the same equity array
\* and the same number of signals as the first.
C22_SecondRunSameResult ==
    pc = "again" => ResultOf(World) = obs.first[1]

\* both runs are done and each of them traded and moved its equity
C22_Witness ==
    /\ pc = "again"
    /\ Len(trades) >= 2 /\ Len(signals) >= 2
    /\ obs.first[1].n_trades >= 2
    /\ equity_curve[NBars] # <<>>
    /\ equity_curve[NBars] # equity_curve[1]
    /\ sync_mode # "UNDEFINED"

\* the fingerprint _register_new_pois takes of a registered POI
PoiKeyOf(st) ==
    <<st.poi_data.timeframe, st.poi_data.direction, st.poi_data.top, st.poi_data.bottom>>

\* C23: over a run no two registered POIs have the same (timeframe,
\* direction, top, bottom), and no two of them have the same poi-id.
C23_RegisteredOnceDistinctIds ==
    \A i, j \in 1..Len(states) :
        i # j => /\ PoiKeyOf(states[i]) # PoiKeyOf(states[j])
                 /\ states[i].poi_id # states[j].poi_id

\* registration ran at the first timestamp and again at a later boundary,
\* where a new POI was registered next to those offered before
C23_Witness ==
    /\ Len(states) >= 2
    /\ \E a, b \in 1..Len(events) :
          /\ events[a].type = "POI_REGISTERED" /\ events[b].type = "POI_REGISTERED"
          /\ events[a].timestamp = BarTime(0)
          /\ events[b].timestamp > BarTime(0)

\* the filtered series is empty, repeats a timestamp or holds a candle off
\* the OHLC invariants
DataError(df) ==
    \/ df = <<>>
    \/ \E i, j \in 1..Len(df) : i < j /\ df[i].time = df[j].time
    \/ \E i \in 1..Len(df) :
          \/ df[i].candle.low > Min2(df[i].candle.open, df[i].candle.close)
          \/ df[i].candle.high < Max2(df[i].candle.open, df[i].candle.close)

\* C24: when the date-filtered series is empty, repeats a timestamp or holds
\* a candle off the OHLC invariants, run() has raised its data diagnostic
\* (ValueError) by the time the manager is initialised, before any bar.
C24_DataErrorsFailFast ==
    (pc \in {"initialized", "raised"} /\ DataError(obs.df)) =>
        (pc = "raised" /\ obs.error = "ValueError")

\* the POIs in POSITIONED or MANAGING are those with an open position
PositionedIffOpen ==
    \A i \in 1..Len(states) :
        states[i].phase \in {"POSITIONED", "MANAGING"}
            <=> states[i].poi_id \in OpenPoiIds(positions)

\* C25: at the end of every bar and when the run returns, a POI is in
\* POSITIONED or MANAGING if and only if the portfolio holds an open position
\* for its poi-id.
C25_PhaseMatchesPortfolio ==
    pc \in {"loop", "close", "done"} => PositionedIffOpen

\* the phases the ticker does not advance
ExternalPhases == {"READY", "POSITIONED", "MANAGING", "CLOSED"}

\* C26: a tick leaves every POI whose phase is READY, POSITIONED, MANAGING or
\* CLOSED as it was, phase and confirmation list included, whatever the
\* candle.
C26_TickSkipsExternalPhases ==
    [][bar_idx' = bar_idx + 1 =>
          \A i \in 1..Len(states) :
              states[i].phase \in ExternalPhases => states'[i] = states[i]]_vars

\* the last update ticked with a tapping candle over a POI in READY and a POI
\* in POSITIONED, MANAGING or CLOSED, or moved another POI while it left one
\* of these alone
C26_Witness ==
    /\ calls > 0 /\ obs.bar # NoValue
    /\ candle = CandleTap
    /\ \E i, k \in 1..Len(obs.before) :
          /\ i # k
          /\ obs.before[i].phase \in {"POSITIONED", "MANAGING", "CLOSED"}
          /\ obs.before[i].confirmations # <<>>
          /\ \/ obs.before[k].phase = "READY"
             \/ /\ obs.before[k].phase \in {"IDLE", "COLLECTING"}
                /\ states[k].confirmations # obs.before[k].confirmations

\* the candle taps the zone of an IDLE state
TapsIdle(state, c) ==
    /\ state.phase = "IDLE"
    /\ check_poi_tap(c.high, c.low, state.poi_data.top, state.poi_data.bottom,
                     state.poi_data.direction)

\* C27: a candle that taps an IDLE POI has its confirmations collected in the
\* same tick, which leaves the POI in COLLECTING or READY; no tick ends with
\* a POI in POI_TAPPED.
C27_TapCollectsInSameTick ==
    [][bar_idx' = bar_idx + 1 =>
          \A i \in 1..Len(states) :
              /\ states'[i].phase # "POI_TAPPED"
              /\ (obs' # obs /\ TapsIdle(states[i], candle')) =>
                    /\ states'[i].phase \in {"COLLECTING", "READY"}
                    /\ states'[i].confirmations =
                          collect_confirmations(candle', bar_idx, states[i].poi_data,
                                                states[i].confirmations, ConceptData1m,
                                                cfg.strategy.confirmations)]_vars

\* the last update tapped an IDLE POI, which is COLLECTING with the tap
\* bar's confirmations stored
C27_Witness ==
    /\ obs.bar # NoValue /\ obs.bar = bar_idx - 1
    /\ \E i \in 1..Len(obs.before) :
          /\ TapsIdle(obs.before[i], candle)
          /\ states[i].phase = "COLLECTING"
          /\ states[i].confirmations # <<>>

\* the ticker advances the states in these phases
Ticked(state) == state.phase \in {"IDLE", "POI_TAPPED", "COLLECTING"}

\* C28: after every tick a POI in COLLECTING has fewer than min_count
\* confirmations; the ticker makes a POI READY in the tick that brings its
\* count from below min_count to min_count or more, and in no other.
C28_ReadyAtFirstTickAtMinCount ==
    [][\A i \in 1..Len(states) :
          LET min_count == cfg.strategy.confirmations.min_count
              before == Len(states[i].confirmations)
              after == Len(states'[i].confirmations)
          IN  /\ states'[i].phase = "COLLECTING" => after < min_count
              /\ Ticked(states[i]) =>
                    /\ before < min_count
                    /\ states'[i].phase = "READY" <=> after >= min_count]_vars

\* the last tick took a COLLECTING POI from below min_count to min_count or
\* more and made it READY
C28_Witness ==
    /\ obs.bar # NoValue
    /\ \E i \in 1..Len(obs.before) :
          /\ obs.before[i].phase = "COLLECTING"
          /\ obs.before[i].confirmations # <<>>
          /\ Len(obs.before[i].confirmations) < cfg.strategy.confirmations.min_count
          /\ states[i].phase = "READY"
          /\ Len(states[i].confirmations) >= cfg.strategy.confirmations.min_count

\* the candle of the bar a signal was recorded on
BarOf(signal) == obs.series[signal.bar_index + 1]

LevelExits ==
    {k \in 1..Len(signals) : /\ signals[k].type = "EXIT"
                             /\ signals[k].reason \in {"STOP_LOSS_HIT", "TARGET_HIT"}}

\* C29: the price of every STOP_LOSS_HIT or TARGET_HIT exit signal lies
\* between the low and the high of the bar the exit is recorded on.
C29_LevelExitInsideBar ==
    pc \in {"loop", "close", "done"} =>
        \A k \in LevelExits :
            /\ BarOf(signals[k]).low <= signals[k].price
            /\ signals[k].price <= BarOf(signals[k]).high

\* the trades of the log with an open position, by trade id
OpenTradeIds == {positions[i].trade_id : i \in 1..Len(positions)}

\* realized P&L of the closed trades among the first k of the log
RECURSIVE RealizedPnl(_)
RealizedPnl(k) ==
    IF k = 0 THEN 0
    ELSE (IF trades[k].trade_id \in OpenTradeIds THEN 0 ELSE trades[k].realized_pnl)
         + RealizedPnl(k - 1)

\* entry commissions of the open trades among the first k of the log
RECURSIVE OpenEntryCommissions(_)
OpenEntryCommissions(k) ==
    IF k = 0 THEN 0
    ELSE (IF trades[k].trade_id \in OpenTradeIds THEN trades[k].commission_entry ELSE 0)
         + OpenEntryCommissions(k - 1)

\* C30: cash less the initial capital is the realized P&L of the closed
\* trades less the entry commissions of the trades still open; with no open
\* position, equity less the initial capital is the realized P&L of the log.
C30_CashIsRealizedLessOpenCommissions ==
    /\ cash - cfg.backtest.initial_capital =
          RealizedPnl(Len(trades)) - OpenEntryCommissions(Len(trades))
    /\ positions = <<>> =>
          (cash + OpenPnl(Len(positions), last_close)) - cfg.backtest.initial_capital
              = RealizedPnl(Len(trades))

\* no position is open after two trades of which the second was entered
\* before the first was closed on a bar and was itself closed at the end of
\* the data: cash was compared with one trade closed and one open, and with
\* both closed
C30_Witness ==
    /\ positions = <<>>
    /\ \E a, b \in 1..Len(trades) :
          /\ a # b
          /\ trades[a].commission_entry > 0 /\ trades[b].commission_entry > 0
          /\ trades[a].realized_pnl # 0
          /\ trades[a].exit_reason \in {"STOP_LOSS_HIT", "TARGET_HIT"}
          /\ trades[b].entry_time < trades[a].exit_time
          /\ trades[b].exit_reason = "END_OF_DATA"

\* the MOVE_TO_BE signals of a POI among the first n signals of a list
MovesToBe(sigs, n, poi_id) ==
    {k \in 1..n : sigs[k].type = "MOVE_TO_BE" /\ sigs[k].poi_id = poi_id}

\* C31: a POI gets at most one MOVE_TO_BE; it is emitted while the POI is
\* POSITIONED with no breakeven level, and after the bar the POI is MANAGING
\* with breakeven level and stop at the signalled price, as is the stop of
\* every open position of the POI.
C31_OneMoveToBreakeven ==
    [][\A i \in 1..Len(states) :
          LET p == states[i].poi_id
              old == MovesToBe(signals, Len(signals), p)
              all == MovesToBe(signals', Len(signals'), p)
          IN  /\ Cardinality(all) <= 1
              /\ \A k \in all \ old :
                    /\ states[i].phase = "POSITIONED"
                    /\ states[i].breakeven_level = NoValue
                    /\ states'[i].phase = "MANAGING"
                    /\ states'[i].breakeven_level = signals'[k].price
                    /\ states'[i].stop_loss = signals'[k].price
                    /\ \A q \in 1..Len(positions') :
                          positions'[q].poi_id = p =>
                              positions'[q].stop_loss = signals'[k].price]_vars

\* a POI with a parent and an add-on position was moved to breakeven on an
\* earlier bar and has since seen another structure break in its direction
\* without leaving MANAGING
C31_Witness ==
    /\ pc = "loop" /\ bar_idx = 4
    /\ \E i \in 1..Len(states) :
          /\ states[i].phase = "MANAGING"
          /\ \E k \in MovesToBe(signals, Len(signals), states[i].poi_id) :
                /\ signals[k].bar_index = 2
                /\ states[i].stop_loss = signals[k].price
          /\ Cardinality({q \in 1..Len(positions) :
                             positions[q].poi_id = states[i].poi_id}) >= 2

\* the candle reaches an active FVG of the trade direction
TestsActiveFvg(c, direction, fvgs) ==
    \E i \in 1..Len(fvgs) :
        /\ fvgs[i].status \in {"FRESH", "TESTED", "PARTIALLY_FILLED"}
        /\ fvgs[i].direction = direction
        /\ IF direction = 1 THEN c.low <= fvgs[i].top ELSE c.high >= fvgs[i].bottom

\* the POI last evaluated is in the fifth-confirm trap with rto_wait on
TrappedWithRtoWait ==
    /\ pc = "entry" /\ states # <<>>
    /\ cfg.strategy.entry.rto_wait
    /\ Len(states[1].confirmations) >= 5
    /\ \A k \in 1..Len(states[1].confirmations) :
          states[1].confirmations[k].type
              \notin {"FVG_INVERSION", "INVERSION_TEST", "FVG_WICK_REACTION"}
    /\ states[1].confirmations[Len(states[1].confirmations)].type
          \in {"STRUCTURE_BREAK", "ADDITIONAL_CBOS"}

\* C32: for a READY POI in the fifth-confirm trap with rto_wait on, an ENTER
\* is returned only for a candle that reaches an active FVG of the POI's
\* direction, in conservative and in aggressive mode.
C32_TrapEntersOnlyOnRto ==
    (TrappedWithRtoWait /\ signals # <<>>) =>
        /\ signals[1].type = "ENTER"
        /\ TestsActiveFvg(candle, states[1].poi_data.direction, mtf["1m"].fvgs)

\* a trapped POI entered on a candle that reaches the FVG
C32_Witness ==
    /\ TrappedWithRtoWait
    /\ signals # <<>>
    /\ signals[1].reason = "RTO entry after 5th-confirm trap"
    /\ cfg.strategy.entry.mode = "aggressive"

\* the ADD_ON signals among the first n signals of a list
AddOns(sigs, n) == {k \in 1..n : sigs[k].type = "ADD_ON"}

\* the zones of the add-on timeframe known at a time, in trade direction,
\* active, with their midpoint between price and target
ZonesInPath(direction, price, target, timestamp) ==
    LET local == get_pois_at(AddonTfOf(cfg.timeframes), timestamp)
    IN  {z \in {local[j] : j \in 1..Len(local)} :
            /\ z.direction = direction
            /\ z.status \in {"ACTIVE", "TESTED"}
            /\ IF direction = 1 THEN price < z.midpoint /\ z.midpoint < target
               ELSE target < z.midpoint /\ z.midpoint < price}

\* the range of the candle meets the zone
Touches(c, z) == c.low <= z.top /\ c.high >= z.bottom

\* a structure event in the direction at most AddonLookback bars before bar b
RecentStructure(direction, b) ==
    \E j \in 1..Len(mtf["1m"].structure) :
        /\ mtf["1m"].structure[j].direction = direction
        /\ mtf["1m"].structure[j].broken_index <= b
        /\ mtf["1m"].structure[j].broken_index >= b - AddonLookback

\* C33: an ADD_ON is emitted for a positioned POI only on a bar whose candle
\* touches the nearest zone of the add-on timeframe in trade direction between
\* price and target, with a structure event in trade direction in the last
\* ten bars; it carries multiplier 0.5 and the POI's current stop and target.
C33_AddonOnTouchAfterStructure ==
    [][\A k \in AddOns(signals', Len(signals')) \ AddOns(signals, Len(signals)) :
          LET sig == signals'[k]
              st == StateOf(states', sig.poi_id)
              zones == ZonesInPath(sig.direction, candle'.close, st.target,
                                   BarTime(sig.bar_index))
          IN  /\ st.phase \in {"POSITIONED", "MANAGING"}
              /\ sig.bar_index = bar_idx
              /\ \E z \in zones :
                    /\ \A y \in zones : Abs(z.midpoint - candle'.close)
                                           <= Abs(y.midpoint - candle'.close)
                    /\ Touches(candle', z)
              /\ RecentStructure(sig.direction, sig.bar_index)
              /\ sig.position_size_mult = [num |-> 1, den |-> 2]
              /\ sig.stop_loss = st.stop_loss
              /\ sig.target = st.target]_vars

\* the candidate zone of an ADD_ON signal: the nearest zone in the path at
\* the close of the signal's bar
CandidateOf(sig) ==
    LET price == BarOf(sig).close
        zones == ZonesInPath(sig.direction, price, sig.target, BarTime(sig.bar_index))
    IN  CHOOSE z \in zones :
            \A y \in zones : Abs(z.midpoint - price) <= Abs(y.midpoint - price)

\* the trade of the parent position of a POI: its first trade that is no add-on
ParentTradeId(poi_id) ==
    CHOOSE id \in 0..(Len(trades) - 1) :
        /\ trades[id + 1].poi_id = poi_id /\ ~trades[id + 1].is_addon
        /\ \A j \in 0..(id - 1) : trades[j + 1].poi_id # poi_id

\* C34: for one parent position a candidate zone triggers at most one ADD_ON,
\* over however many bars, and every add-on trade names the parent's trade id.
C34_OneAddonPerCandidate ==
    /\ \A a, b \in AddOns(signals, Len(signals)) :
          (a # b /\ signals[a].poi_id = signals[b].poi_id) =>
              CandidateOf(signals[a]) # CandidateOf(signals[b])
    /\ \A k \in 1..Len(trades) :
          trades[k].is_addon => trades[k].parent_trade_id = ParentTradeId(trades[k].poi_id)

\* the size a full entry at a fill price and stop gets from the portfolio as
\* it stands
FullEntrySize(fill_price, stop_loss) ==
    calculate_position_size(equity(PortfolioValue), fill_price, stop_loss, sync_mode,
                            cfg.strategy.risk)

\* C35: the position opened for an ADD_ON has half the size of a full entry
\* with the same fill price, stop, equity and sync mode (to the unit).
C35_AddonHalfSize ==
    [][\A k \in (Len(trades) + 1)..Len(trades') :
          trades'[k].is_addon =>
              LET full == FullEntrySize(trades'[k].entry_price, trades'[k].stop_loss)
              IN  /\ 2 * trades'[k].position_size <= full
                  /\ full <= 2 * trades'[k].position_size + 1]_vars

\* the INVERSION_TEST confirmations of a state, by position in its list
InversionTests(st) ==
    {k \in 1..Len(st.confirmations) : st.confirmations[k].type = "INVERSION_TEST"}

\* C36: an INVERSION_TEST recorded at bar i rests on an opposing FVG whose
\* inversion bar is at or before i.
C36_InversionTestOfInvertedFvg ==
    \A i \in 1..Len(states) :
        \A k \in InversionTests(states[i]) :
            states[i].confirmations[k].formed_at <= states[i].confirmations[k].bar_index

\* C37: an ADDITIONAL_CBOS recorded at bar b follows a STRUCTURE_BREAK of the
\* same POI recorded at an earlier bar, so no bar gives a POI its first
\* STRUCTURE_BREAK together with an ADDITIONAL_CBOS.
C37_CbosAfterEarlierBreak ==
    \A i \in 1..Len(states) :
        \A k \in 1..Len(states[i].confirmations) :
            states[i].confirmations[k].type = "ADDITIONAL_CBOS" =>
                \E j \in 1..Len(states[i].confirmations) :
                    /\ states[i].confirmations[j].type = "STRUCTURE_BREAK"
                    /\ states[i].confirmations[j].bar_index
                          < states[i].confirmations[k].bar_index

\* the default confirmation counts: min_count 5, max_count 8
DefaultCounts ==
    /\ cfg.strategy.confirmations.min_count = 5
    /\ cfg.strategy.confirmations.max_count = 8

\* some POI of the state machine holds a confirmation of the kind
Recorded(kind) ==
    \E i \in 1..Len(states) : \E k \in 1..Len(states[i].confirmations) :
        states[i].confirmations[k].type = kind

\* C38: with the default counts a POI driven by the state-machine ticker
\* still records FVG_WICK_REACTION: a tick that starts from five or more
\* confirmations of a POI, on a candle that makes the wick reaction, and ends
\* below max_count has appended it.
C38_WickReactionUnderDefaultCounts ==
    (pc = "tick" /\ "before" \in DOMAIN obs /\ DefaultCounts) =>
        \A i \in 1..Len(obs.before) :
            ( /\ Len(obs.before[i].confirmations) >= WickGate
              /\ Len(states[i].confirmations) < cfg.strategy.confirmations.max_count
              /\ check_fvg_wick_reaction(candle, ConceptData1m.nearby_fvgs,
                                         states[i].poi_data.direction).hit )
            => \E k \in 1..Len(states[i].confirmations) :
                  /\ states[i].confirmations[k].type = "FVG_WICK_REACTION"
                  /\ states[i].confirmations[k].bar_index = obs.bar

\* with the default counts no ticked POI ever holds FVG_WICK_REACTION
WickNeverUnderDefaultCounts ==
    DefaultCounts => ~Recorded("FVG_WICK_REACTION")

\* with the default counts a ticked POI reaches max_count confirmations
FullListUnderDefaultCounts ==
    /\ DefaultCounts
    /\ \E i \in 1..Len(states) : Len(states[i].confirmations) = 8

\* the fill price of the first entry of a POI: the entry price of its parent
\* trade
EntryFill(poi_id) ==
    (CHOOSE tr \in {trades[k] : k \in 1..Len(trades)} :
        tr.poi_id = poi_id /\ ~tr.is_addon).entry_price

\* C39: the price of a MOVE_TO_BE is the entry fill moved by twice the
\* configured commission rate, up for a long and down for a short.
C39_BreakevenAtConfiguredCommission ==
    \A k \in 1..Len(signals) :
        signals[k].type = "MOVE_TO_BE" =>
            signals[k].price =
                IF signals[k].direction = 1
                THEN EntryFill(signals[k].poi_id)
                        + Pct(EntryFill(signals[k].poi_id),
                              PctOf(2 * cfg.backtest.commission_pct.num,
                                    cfg.backtest.commission_pct.den))
                ELSE EntryFill(signals[k].poi_id)
                        - Pct(EntryFill(signals[k].poi_id),
                              PctOf(2 * cfg.backtest.commission_pct.num,
                                    cfg.backtest.commission_pct.den))

\* the configured timeframe of the greatest width
HighestTf(tfs) ==
    CHOOSE tf \in {tfs[i] : i \in 1..Len(tfs)} :
        \A j \in 1..Len(tfs) : TFWidth(tfs[j]) <= TFWidth(tf)

\* the configured timeframe of the least width other than 1m
LowestNon1mTf(tfs) ==
    CHOOSE tf \in {tfs[i] : i \in 1..Len(tfs)} \ {"1m"} :
        \A j \in 1..Len(tfs) : tfs[j] # "1m" => TFWidth(tf) <= TFWidth(tfs[j])

\* the bias read from the structure of a timeframe at a time
BiasFrom(tf, timestamp) ==
    determine_bias_at(tf, get_structure_at(tf, timestamp), timestamp)

\* _update_bias_sync has run
BiasUpdated == pc = "bias" /\ "timestamp" \in DOMAIN obs

\* C40 as stated: after a bias update the HTF bias is the bias of the highest
\* configured timeframe and the LTF bias that of the lowest configured
\* timeframe other than 1m.
C40_BiasFromHighestAndLowest ==
    BiasUpdated =>
        /\ htf_bias = BiasFrom(HighestTf(cfg.timeframes), obs.timestamp)
        /\ ltf_bias = BiasFrom(LowestNon1mTf(cfg.timeframes), obs.timestamp)

\* C40: after a bias update the HTF bias is the bias of 1H when 1H is
\* configured and of the last configured timeframe otherwise; the LTF bias is
\* the bias of 5m when 5m is configured and of the second configured
\* timeframe otherwise.
C40_BiasFrom1HAnd5mFirst ==
    BiasUpdated =>
        /\ htf_bias = BiasFrom(IF InList("1H", cfg.timeframes) THEN "1H"
                               ELSE cfg.timeframes[Len(cfg.timeframes)], obs.timestamp)
        /\ ltf_bias = BiasFrom(IF InList("5m", cfg.timeframes) THEN "5m"
                               ELSE cfg.timeframes[2], obs.timestamp)
        /\ sync_mode = check_sync(htf_bias, ltf_bias)

\* a bias update with the seven default timeframes: the HTF bias is the 1H
\* bias and differs from the 1D bias
C40_Witness ==
    /\ BiasUpdated
    /\ Len(cfg.timeframes) = 7
    /\ htf_bias = BiasFrom("1H", obs.timestamp)
    /\ htf_bias # BiasFrom("1D", obs.timestamp)
    /\ ltf_bias = BiasFrom("5m", obs.timestamp)

====
